---------------------------- MODULE Spec2Model ----------------------------
(***************************************************************************)
(* VideoEngine2: the script-to-clips generation pipeline.                  *)
(*                                                                         *)
(* Three copies of the pipeline service exist in the repository:           *)
(*   "stock"      services/advancedVideoGenerationService.js  (stock video *)
(*                search with sample-video fallback)                       *)
(*   "geminiMock" unnamed/part_001  (Gemini call, mock clip on failure)    *)
(*   "gemini"     unnamed/part_002  (Gemini call, no fallback)             *)
(* Each keeps its jobs in a module-level videoRequests object.  A job is   *)
(* one run of the async function generateVideoFromScript; its awaits are   *)
(* the points where other handlers interleave.                             *)
(*                                                                         *)
(* Beside the pipeline the module models server.js with                    *)
(* services/videoGenerationService.js (requests completed by a timer) and  *)
(* the Kling fallback of unnamed/part_000, each under a specification of   *)
(* its own: Spec, SpecServer, SpecKling.  SpecFallback runs the fallback   *)
(* selections, SpecRoutes the routes of services/advancedVideoRoutes.js    *)
(* over the pipeline, SpecStatus its status route, SpecCompat the          *)
(* compatibility layer of services/advancedVideoService.js.  SpecLive is   *)
(* Spec with the fairness the timeouts of the code justify.  SpecSegmenter *)
(* and SpecKeywords call the segmenter and the keyword extractors on       *)
(* bounded inputs.  SpecServerLive is SpecServer with its timers firing,   *)
(* SpecGenerator the clip loop of the AdvancedVideoGenerator class.        *)
(*                                                                         *)
(* Text is modelled at the word level: a script is a sequence of           *)
(* paragraphs, a paragraph a sequence of sentences, a sentence a sequence  *)
(* of words; a segment is the sequence of words of the sentences joined    *)
(* by single spaces.                                                       *)
(***************************************************************************)
EXTENDS Integers, Sequences, FiniteSets, TLC

\* ---------------------------------------------------------------- bounds
MaxJobs == 1          \* jobs submitted to the pipeline service
MaxClock == 1         \* clock readings 0..MaxClock
MaxRequests == 1      \* requests posted to /api/video/generate
MaxTimers == 1        \* pending setTimeout callbacks per request
MaxCallStack == 3     \* frames the call stack holds before a RangeError
MaxRuns == 2          \* runs of a fallback selection
MaxPosts == 2         \* jobs created through POST /generate
MaxSentences == 2     \* sentences of a paragraph handed to the segmenter
MaxSegments == 4      \* segments handed to generateConsistentClips
MaxParagraphs == 2    \* paragraphs of a script handed to the segmenter
MaxClipDuration == 4  \* clip durations 1..MaxClipDuration, in seconds
MaxWords == 3         \* words of a text handed to a keyword extractor
MaxKeywords == 2      \* maxKeywords arguments 1..MaxKeywords

\* ------------------------------------------------------------ JS values
Null == [js |-> "null"]
Undefined == [js |-> "undefined"]

\* obj[name] = value, also when obj has no such property yet
SetField(obj, name, value) == (name :> value) @@ obj

\* `${n}` inside a message
Str(n) == ToString(n)

\* ------------------------------------------------------------ vocabulary
ScriptEmpty == << <<>> >>

ScriptSunrise ==
  << << <<"The", "sun", "rises", "over", "the", "mountains.">>,
        <<"Birds", "begin", "to", "sing.">> >> >>

ScriptChef ==
  << << <<"A", "chef", "prepares", "a", "gourmet", "meal", "in", "a", "busy", "kitchen.">>,
        <<"Steam", "rises", "from", "the", "pots.">>,
        <<"The", "team", "works", "quickly", "and", "precisely.">> >> >>

Scripts == {ScriptEmpty, ScriptSunrise, ScriptChef}

\* String.prototype.toLowerCase on the words of the scripts
toLowerCase ==
  "A" :> "a" @@ "Birds" :> "birds" @@ "Steam" :> "steam" @@ "The" :> "the" @@
  "a" :> "a" @@ "and" :> "and" @@ "begin" :> "begin" @@ "busy" :> "busy" @@
  "chef" :> "chef" @@ "from" :> "from" @@ "gourmet" :> "gourmet" @@ "in" :> "in" @@
  "kitchen." :> "kitchen." @@ "meal" :> "meal" @@ "mountains." :> "mountains." @@
  "over" :> "over" @@ "pots." :> "pots." @@ "precisely." :> "precisely." @@
  "prepares" :> "prepares" @@ "quickly" :> "quickly" @@ "rises" :> "rises" @@
  "sing." :> "sing." @@ "sun" :> "sun" @@ "team" :> "team" @@ "the" :> "the" @@
  "to" :> "to" @@ "works" :> "works" @@ "kitchen" :> "kitchen" @@
  "mountains" :> "mountains" @@ "pots" :> "pots" @@
  "precisely" :> "precisely" @@ "sing" :> "sing" @@
  "mountain" :> "mountain" @@ "Kitchen" :> "kitchen" @@ "robot" :> "robot" @@
  "river" :> "river" @@ "Mountain" :> "mountain" @@
  "constructor" :> "constructor" @@ "with" :> "with"

\* word.replace(/[^\w\s]/g, '') on the lower-cased words
removePunctuation ==
  "a" :> "a" @@ "and" :> "and" @@ "begin" :> "begin" @@ "birds" :> "birds" @@
  "busy" :> "busy" @@ "chef" :> "chef" @@ "from" :> "from" @@ "gourmet" :> "gourmet" @@
  "in" :> "in" @@ "kitchen." :> "kitchen" @@ "meal" :> "meal" @@
  "mountains." :> "mountains" @@ "over" :> "over" @@ "pots." :> "pots" @@
  "precisely." :> "precisely" @@ "prepares" :> "prepares" @@ "quickly" :> "quickly" @@
  "rises" :> "rises" @@ "sing." :> "sing" @@ "steam" :> "steam" @@ "sun" :> "sun" @@
  "team" :> "team" @@ "the" :> "the" @@ "to" :> "to" @@ "works" :> "works" @@
  "mountain" :> "mountain" @@ "river" :> "river" @@
  "constructor" :> "constructor" @@ "with" :> "with"

\* String.prototype.length on the cleaned words
wordLength ==
  "a" :> 1 @@ "and" :> 3 @@ "begin" :> 5 @@ "birds" :> 5 @@ "busy" :> 4 @@
  "chef" :> 4 @@ "from" :> 4 @@ "gourmet" :> 7 @@ "in" :> 2 @@ "kitchen" :> 7 @@
  "meal" :> 4 @@ "mountains" :> 9 @@ "over" :> 4 @@ "pots" :> 4 @@
  "precisely" :> 9 @@ "prepares" :> 8 @@ "quickly" :> 7 @@ "rises" :> 5 @@
  "sing" :> 4 @@ "steam" :> 5 @@ "sun" :> 3 @@ "team" :> 4 @@ "the" :> 3 @@
  "to" :> 2 @@ "works" :> 5 @@ "mountain" :> 8 @@ "river" :> 5 @@
  "constructor" :> 11 @@ "with" :> 4

\* ------------------------------------------------------ script segmenter
\* sentence.split(/\s+/).length: the empty string splits into one piece
sentenceWordCount(sentence) == IF sentence = <<>> THEN 1 ELSE Len(sentence)

\* fitsTarget, with the words already in the segment left out of the sum
fitsTargetAlone(currentWordCount, count, clipDuration) ==
  2 * count <= 5 * clipDuration

\* currentWordCount + sentenceWordCount <= clipDuration * wordsPerSecond,
\* wordsPerSecond = 2.5, written over the integers
fitsTarget(currentWordCount, count, clipDuration) ==
  2 * (currentWordCount + count) <= 5 * clipDuration

\* One pass of sentences.forEach over the sentences from position k on.
\* st = [segments, currentSegment, currentWordCount]
RECURSIVE forEachSentence(_, _, _, _)
forEachSentence(sentences, k, st, clipDuration) ==
  IF k > Len(sentences) THEN st
  ELSE LET sentence == sentences[k]
           count == sentenceWordCount(sentence)
           next ==
             IF fitsTarget(st.currentWordCount, count, clipDuration)
             THEN [st EXCEPT !.currentSegment = st.currentSegment \o sentence,
                             !.currentWordCount = st.currentWordCount + count]
             ELSE IF st.currentSegment # <<>>
             THEN [segments |-> Append(st.segments, st.currentSegment),
                   currentSegment |-> sentence,
                   currentWordCount |-> count]
             ELSE [segments |-> Append(st.segments, sentence),
                   currentSegment |-> <<>>,
                   currentWordCount |-> 0]
       IN forEachSentence(sentences, k + 1, next, clipDuration)

\* segmentParagraph, without the push of the last segment
segmentParagraphUnfinished(segments, paragraph, clipDuration) ==
  IF paragraph = <<>> THEN segments
  ELSE forEachSentence(paragraph, 1,
         [segments |-> segments, currentSegment |-> <<>>,
          currentWordCount |-> 0], clipDuration).segments

\* The body of paragraphs.forEach for one paragraph
segmentParagraph(segments, paragraph, clipDuration) ==
  IF paragraph = <<>> THEN segments
  ELSE LET st == forEachSentence(paragraph, 1,
                   [segments |-> segments, currentSegment |-> <<>>,
                    currentWordCount |-> 0], clipDuration)
       IN IF st.currentSegment # <<>>
          THEN Append(st.segments, st.currentSegment)
          ELSE st.segments

RECURSIVE forEachParagraph(_, _, _, _)
forEachParagraph(paragraphs, k, segments, clipDuration) ==
  IF k > Len(paragraphs) THEN segments
  ELSE forEachParagraph(paragraphs, k + 1,
         segmentParagraph(segments, paragraphs[k], clipDuration), clipDuration)

parseScriptIntoSegments(script, clipDuration) ==
  forEachParagraph(script, 1, <<>>, clipDuration)

\* ------------------------------------------- stock service: search query
commonWords ==
  {"a", "an", "the", "and", "or", "but", "in", "on", "at", "to", "for", "with",
   "by", "about", "as", "of", "is", "are", "was", "were"}

isSearchKeyword(word) ==
  LET cleanWord == removePunctuation[word]
  IN wordLength[cleanWord] > 3 /\ cleanWord \notin commonWords

\* keywords.slice(0, 3) of the lower-cased words that pass the filter; the
\* code joins them with spaces, the model keeps the list
extractSearchKeywords(prompt) ==
  LET words == [k \in 1..Len(prompt) |-> toLowerCase[prompt[k]]]
      keywords == SelectSeq(words, isSearchKeyword)
  IN SubSeq(keywords, 1, IF Len(keywords) < 3 THEN Len(keywords) ELSE 3)


\* ------------------------------------------------------------------ state
VARIABLES
  service,        \* which copy of advancedVideoGenerationService is deployed
  env,            \* process environment and the state of the external provider
  clock,          \* the reading of new Date()
  videoRequests,  \* the module-level job registry: request id -> record
  task,           \* per job: the locals of its generateVideoFromScript run and
                  \* the await it is suspended at
  response,       \* what the last query or route call returned
  requests,       \* videoGenerationService.js: its videoRequests object
  timers,         \* videoGenerationService.js: pending setTimeout callbacks
                  \* per request id
  starting,       \* server.js: the request id the POST handler has created
                  \* and not yet started (a set of at most one id)
  kling,          \* klingAiService: the call of generateVideoWithFallback
                  \* under way or returned, or Null
  fallback,       \* the runs of a fallback selection made so far: which
                  \* path, on what input, with what asset
  validating,     \* advancedVideoRoutes.js: the request ids whose status
                  \* handler awaits validateVideoUrl
  keywordRuns,    \* the calls of a keyword extractor made so far: which
                  \* function, on what input, with what result
  generator       \* the AdvancedVideoGenerator object and the calls of its
                  \* generateConsistentClips under way or settled, or Null
                  \* before the object is constructed

vars == <<service, env, clock, videoRequests, task, response, requests,
          timers, starting, kling, fallback, validating,
          keywordRuns, generator>>

pipelineVars == <<service, env, videoRequests, task>>
serverVars == <<requests, timers, starting>>

Services == {"stock", "geminiMock", "gemini"}

\* apiKey: stockVideoApiKey (stock) / a real GEMINI_API_KEY (geminiMock) is set
\* providerDown: every request to the external provider fails
Envs == [apiKey : BOOLEAN, providerDown : BOOLEAN,
         NODE_ENV : {"development", "production"}]

\* the calls of generateVideoFromScript: no script text, one segment (a
\* paragraph that fits the default clip), two and three segments
Submissions ==
  { <<ScriptEmpty, [style |-> "cinematic"]>>,
    <<ScriptSunrise, [style |-> "cinematic"]>> }
  \cup { <<script, [style |-> "cinematic", clipDuration |-> 3,
                    aspectRatio |-> "9:16"]>> :
           script \in {ScriptSunrise, ScriptChef} }

\* new Date().toISOString()
toISOString(t) == [iso |-> t]

\* ------------------------------------------------------------ media URLs
\* videoConfig.sampleVideos[k]: the first two of the ten entries
sampleVideos ==
  { [host |-> "gtv-videos-bucket/sample", name |-> <<n>>] :
      n \in {"BigBuckBunny.mp4", "ElephantsDream.mp4"} }

\* a link the stock video API returns for a query
PexelsLink == [host |-> "videos.pexels.com", name |-> <<"hd.mp4">>]

\* a video the Gemini API generated for one call
GeminiUrl(id, i) == [host |-> "gemini-api", name |-> <<Str(id), Str(i)>>]

\* https://storage.googleapis.com/gemini-generated-videos/${uuidv4()}.mp4
MockVideoUrl(id, i) ==
  [host |-> "gemini-generated-videos", name |-> <<Str(id), Str(i)>>]

\* https://storage.googleapis.com/gemini-generated-videos/${requestId}_final.mp4
MockFinalUrl(id) ==
  [host |-> "gemini-generated-videos", name |-> <<Str(id), "_final.mp4">>]

\* videoUrl.includes('gemini-generated-videos')
isMockUrl(videoUrl) == videoUrl.host = "gemini-generated-videos"

ThumbnailPlaceholder == "https://via.placeholder.com/1280x720?text=Video+Thumbnail"

\* the hard-coded base64 JPEG of part_001
MockFrame == [data |-> "data:image/jpeg;base64,/9j/4AAQ"]

\* ----------------------------------------------------------- stock: search
\* The lists searchStockVideos can resolve to.  Without an API key, on a
\* request error and on an empty result it returns one random sample video;
\* otherwise the 16:9 links of the videos found, which may be none.
searchStockVideos(e) ==
  LET sample == { <<v>> : v \in sampleVideos }
  IN IF ~e.apiKey THEN sample
     ELSE IF e.providerDown THEN sample
     ELSE sample \cup { <<PexelsLink>>, <<>> }

\* stock generateVideoClip: the results the promise can settle with
generateVideoClipStock(prompt, e) ==
  LET keywords == extractSearchKeywords(prompt)
  IN { IF Len(videoUrls) = 0
       THEN [ok |-> FALSE,
             error |-> <<"Failed to generate video clip:", "No suitable videos found">>]
       ELSE [ok |-> TRUE, videoUrl |-> videoUrls[1],
             thumbnailUrl |-> ThumbnailPlaceholder, keywords |-> keywords]
       : videoUrls \in searchStockVideos(e) }

\* ------------------------------------------------------- gemini: one clip
\* What the try block of the Gemini generateVideoClip ends with: a clip, or
\* a thrown error (request failed, empty response, no video URL in it).
geminiCall(id, i, e) ==
  LET thrown == { [ok |-> FALSE, error |-> <<m>>] :
                    m \in {"Empty response from Gemini API",
                           "No video URL found in Gemini API response"} }
      failed == { [ok |-> FALSE, error |-> <<"Network Error">>] }
      clip == { [ok |-> TRUE, videoUrl |-> GeminiUrl(id, i), thumbnailUrl |-> ""] }
  IN IF e.providerDown THEN failed ELSE clip \cup thrown \cup failed

\* part_002: every error is rethrown
generateVideoClipGemini(id, i, e) ==
  { IF r.ok THEN r
    ELSE [ok |-> FALSE, error |-> <<"Failed to generate video clip:">> \o r.error]
    : r \in geminiCall(id, i, e) }

\* part_001: development mode or the placeholder key short-circuits to a mock
\* clip; an error of the real call is answered with a mock clip outside
\* development mode
generateVideoClipGeminiMock(id, i, e) ==
  LET mock == [ok |-> TRUE, videoUrl |-> MockVideoUrl(id, i),
               thumbnailUrl |-> "gemini-generated-videos/mock.jpg"]
  IN IF e.NODE_ENV = "development" \/ ~e.apiKey THEN {mock}
     ELSE { IF r.ok THEN r
            ELSE IF e.NODE_ENV # "development"
                 THEN [ok |-> TRUE, videoUrl |-> mock.videoUrl,
                       thumbnailUrl |-> mock.thumbnailUrl,
                       isMock |-> TRUE, error |-> r.error]
                 ELSE [ok |-> FALSE,
                       error |-> <<"Failed to generate video clip:">> \o r.error]
            : r \in geminiCall(id, i, e) }

\* finalOptions of generateVideoClip: the configured values, overridden by
\* the options of the call
finalOptions(options) ==
  options @@ [aspectRatio |-> "16:9", resolution |-> "1920x1080",
              frameRate |-> 30]

generateVideoClip(svc, id, i, prompt, e) ==
  CASE svc = "stock" -> generateVideoClipStock(prompt, e)
    [] svc = "geminiMock" -> generateVideoClipGeminiMock(id, i, e)
    [] svc = "gemini" -> generateVideoClipGemini(id, i, e)

\* ----------------------------------------------------- reference frames
FrameOf(videoUrl) == [frameOf |-> videoUrl]

\* part_001: mock frame in development mode, for a mock URL and on any error
\* part_002: null on any error
extractReferenceFrame(svc, videoUrl, e) ==
  IF svc = "geminiMock"
  THEN IF e.NODE_ENV = "development" \/ isMockUrl(videoUrl)
       THEN {MockFrame}
       ELSE {FrameOf(videoUrl), MockFrame}
  ELSE {FrameOf(videoUrl), Null}

\* ------------------------------------------------------------- publishing
DriveLink(kind, id) ==
  [host |-> "drive.google.com", name |-> <<Str(id)>>, kind |-> kind]

DriveResponse(id) ==
  [fileId |-> [drive |-> id], webViewLink |-> DriveLink("view", id),
   downloadUrl |-> DriveLink("download", id)]

\* uploadToGoogleDrive never rejects: on an upload error stock and gemini
\* return the video URL itself with fileId null, geminiMock a mock response
uploadToGoogleDrive(svc, id, videoUrl, e) ==
  IF svc = "geminiMock"
  THEN IF e.NODE_ENV = "development" \/ isMockUrl(videoUrl)
       THEN {DriveResponse(id)}
       ELSE {DriveResponse(id), SetField(DriveResponse(id), "isMock", TRUE)}
  ELSE {DriveResponse(id),
        [fileId |-> Null, webViewLink |-> videoUrl, downloadUrl |-> videoUrl]}

\* ------------------------------------------------- generateVideoFromScript
\* Progress, counted from the segments still to do
ProgressOfRemaining(i, totalSegments) ==
  ((totalSegments - i) * 100) \div totalSegments

\* Math.floor((i / totalSegments) * 100).  For totalSegments < 50 the double
\* arithmetic agrees with integer division (the first difference is 29/50).
Progress(i, totalSegments) == (i * 100) \div totalSegments

\* clipOptions, with the caller's options spread last
clipOptionsOfCaller(options, clipDuration) ==
  options @@ [duration |-> clipDuration, aspectRatio |-> "16:9",
              resolution |-> "1920x1080"]

\* { ...options, duration, aspectRatio: config.aspectRatio, resolution }
clipOptions(options, clipDuration) ==
  SetField(SetField(SetField(options, "duration", clipDuration),
                    "aspectRatio", "16:9"), "resolution", "1920x1080")

\* NewRequest, with the record stored as pending
NewRequestPending(requestId, script, options, now) ==
  [id |-> requestId, status |-> "pending", progress |-> 0,
   script |-> script, options |-> options,
   createdAt |-> toISOString(now), clips |-> <<>>,
   finalVideoUrl |-> Null,
   message |-> <<"Starting video generation process">>]

\* the request record as first stored in videoRequests
NewRequest(requestId, script, options, now) ==
  [id |-> requestId, status |-> "processing", progress |-> 0,
   script |-> script, options |-> options,
   createdAt |-> toISOString(now), clips |-> <<>>,
   finalVideoUrl |-> Null,
   message |-> <<"Starting video generation process">>]

\* Throw, with the record marked failed and its message left as it was
ThrowKeepingMessage(request, locals, error) ==
  [request |-> [request EXCEPT !.status = "failed"],
   locals |-> [locals EXCEPT !.pc = "rejected"]]

\* the catch block: the record is marked failed and the error rethrown
Throw(request, locals, error) ==
  [request |-> [request EXCEPT !.status = "failed",
                               !.message = <<"Error:">> \o error],
   locals |-> [locals EXCEPT !.pc = "rejected"]]

\* StoreClip, with the clips numbered from one
StoreClipOneBased(request, locals, clipData) ==
  LET clip == [index |-> locals.i + 1, segment |-> locals.segments[locals.i + 1],
               videoUrl |-> clipData.videoUrl,
               thumbnailUrl |-> clipData.thumbnailUrl]
  IN [request EXCEPT !.clips =
        Append(@, IF service = "stock"
                  THEN SetField(clip, "keywords", clipData.keywords)
                  ELSE clip)]

\* videoRequests[requestId].clips.push({...}) for the clip of iteration i
StoreClip(request, locals, clipData) ==
  LET clip == [index |-> locals.i, segment |-> locals.segments[locals.i + 1],
               videoUrl |-> clipData.videoUrl,
               thumbnailUrl |-> clipData.thumbnailUrl]
  IN [request EXCEPT !.clips =
        Append(@, IF service = "stock"
                  THEN SetField(clip, "keywords", clipData.keywords)
                  ELSE clip)]

\* RunLoop, with the next clip requested before the reference frame of the
\* last one is in hand
RunLoopAhead(id, request, locals) ==
  LET totalSegments == Len(locals.segments)
  IN IF locals.i < totalSegments
     THEN [request |->
             [request EXCEPT
                !.progress = Progress(locals.i, totalSegments),
                !.message = <<"Generating clip", Str(locals.i + 1), "of",
                              Str(totalSegments)>>],
           locals |->
             [locals EXCEPT
                !.pc = "generateVideoClip",
                !.call = [prompt |-> locals.segments[locals.i + 1],
                          options |-> clipOptions(request.options,
                                                  locals.clipDuration),
                          referenceImageUrl |-> Null]]]
     ELSE IF Len(request.clips) > 0
     THEN [request |-> request,
           locals |-> [locals EXCEPT
                         !.pc = "uploadToGoogleDrive",
                         !.finalVideoUrl =
                            request.clips[Len(request.clips)].videoUrl]]
     ELSE IF service = "geminiMock"
     THEN [request |-> request,
           locals |-> [locals EXCEPT !.pc = "uploadToGoogleDrive",
                                     !.finalVideoUrl = MockFinalUrl(id)]]
     ELSE Throw(request, locals, <<"No clips were generated successfully">>)

\* From the loop test `i < segments.length` to the next await: either the
\* head of iteration i up to the call of generateVideoClip, or the code after
\* the loop up to the call of uploadToGoogleDrive.
RunLoop(id, request, locals) ==
  LET totalSegments == Len(locals.segments)
  IN IF locals.i < totalSegments
     THEN [request |->
             [request EXCEPT
                !.progress = Progress(locals.i, totalSegments),
                !.message = <<"Generating clip", Str(locals.i + 1), "of",
                              Str(totalSegments)>>],
           locals |->
             [locals EXCEPT
                !.pc = "generateVideoClip",
                !.call = [prompt |-> locals.segments[locals.i + 1],
                          options |-> clipOptions(request.options,
                                                  locals.clipDuration),
                          referenceImageUrl |-> locals.referenceImageUrl]]]
     ELSE IF Len(request.clips) > 0
     THEN [request |-> request,
           locals |-> [locals EXCEPT
                         !.pc = "uploadToGoogleDrive",
                         !.finalVideoUrl =
                            request.clips[Len(request.clips)].videoUrl]]
     ELSE IF service = "geminiMock"
     THEN [request |-> request,
           locals |-> [locals EXCEPT !.pc = "uploadToGoogleDrive",
                                     !.finalVideoUrl = MockFinalUrl(id)]]
     ELSE Throw(request, locals, <<"No clips were generated successfully">>)

\* Complete, without the assignment of finalVideoUrl
CompleteWithoutFinalUrl(request, locals, driveResponse, now) ==
  LET r == [request EXCEPT
              !.status = "completed",
              !.progress = 100,
              !.message = <<"Video generation completed successfully">>]
  IN SetField(SetField(SetField(r,
       "googleDriveUrl", driveResponse.webViewLink),
       "googleDriveDownloadUrl", driveResponse.downloadUrl),
       "completedAt", toISOString(now))

\* Complete, with an upload that did not reach Drive treated as an error
CompleteOrFail(request, locals, driveResponse, now) ==
  IF driveResponse.fileId = Null \/ "isMock" \in DOMAIN driveResponse
  THEN [request EXCEPT !.status = "failed",
                       !.message = <<"Error:", "Failed to upload to Google Drive">>]
  ELSE LET r == [request EXCEPT
                   !.status = "completed",
                   !.progress = 100,
                   !.finalVideoUrl = locals.finalVideoUrl,
                   !.message = <<"Video generation completed successfully">>]
       IN SetField(SetField(SetField(r,
            "googleDriveUrl", driveResponse.webViewLink),
            "googleDriveDownloadUrl", driveResponse.downloadUrl),
            "completedAt", toISOString(now))

\* the update after uploadToGoogleDrive has returned
Complete(request, locals, driveResponse, now) ==
  LET r == [request EXCEPT
              !.status = "completed",
              !.progress = 100,
              !.finalVideoUrl = locals.finalVideoUrl,
              !.message = <<"Video generation completed successfully">>]
  IN SetField(SetField(SetField(r,
       "googleDriveUrl", driveResponse.webViewLink),
       "googleDriveDownloadUrl", driveResponse.downloadUrl),
       "completedAt", toISOString(now))

\* uuidv4(): an id no earlier call returned
uuidv4 == Cardinality(DOMAIN videoRequests) + 1

\* A handler runs to its next await before any other handler runs: while a
\* call of generateVideoFromScript is between creating its record and its
\* first await, nothing else is scheduled.
Scheduled == \A id \in DOMAIN task : task[id].pc # "created"

\* generateVideoFromScript is called: the request record is created
GenerateVideoFromScript(script, options) ==
  /\ Scheduled
  /\ Cardinality(DOMAIN videoRequests) < MaxJobs
  /\ LET requestId == uuidv4
     IN /\ videoRequests' =
             (requestId :> NewRequest(requestId, script, options, clock))
               @@ videoRequests
        /\ task' = (requestId :>
                      [pc |-> "created", i |-> 0, segments |-> <<>>,
                       clipDuration |-> Undefined,
                       referenceImageUrl |-> Null, call |-> Undefined,
                       clipData |-> Undefined, finalVideoUrl |-> Undefined,
                       driveResponse |-> Undefined]) @@ task
  /\ UNCHANGED <<service, env, clock, response, serverVars, kling, fallback, validating, keywordRuns, generator>>

\* the try block up to its first await (or to the throw, when there is
\* nothing to await): segmentation, then the loop
SegmentScript(id) ==
  /\ id \in DOMAIN task
  /\ task[id].pc = "created"
  /\ LET request == videoRequests[id]
         options == request.options
         clipDuration == IF "clipDuration" \in DOMAIN options
                         THEN options.clipDuration ELSE 4
         segments == parseScriptIntoSegments(request.script, clipDuration)
         totalSegments == Len(segments)
         parsed == SetField(
                     [request EXCEPT !.message = <<"Parsed script into",
                                        Str(totalSegments), "segments">>],
                     "totalSegments", totalSegments)
         next == RunLoop(id, parsed,
                         [task[id] EXCEPT !.segments = segments,
                                          !.clipDuration = clipDuration])
     IN /\ videoRequests' = [videoRequests EXCEPT ![id] = next.request]
        /\ task' = [task EXCEPT ![id] = next.locals]
  /\ UNCHANGED <<service, env, clock, response, serverVars, kling, fallback, validating, keywordRuns, generator>>

\* await generateVideoClip(...) settles
ClipGenerated(id) ==
  /\ Scheduled
  /\ id \in DOMAIN task
  /\ task[id].pc = "generateVideoClip"
  /\ \E clipData \in generateVideoClip(service, id, task[id].i,
                                       task[id].call.prompt, env) :
       LET locals == task[id]
           request == videoRequests[id]
           next ==
             IF ~clipData.ok THEN Throw(request, locals, clipData.error)
             ELSE IF service = "stock"
             THEN RunLoop(id, StoreClip(request, locals, clipData),
                          [locals EXCEPT !.i = locals.i + 1])
             ELSE [request |-> request,
                   locals |-> [locals EXCEPT !.pc = "extractReferenceFrame",
                                             !.clipData = clipData]]
       IN /\ videoRequests' = [videoRequests EXCEPT ![id] = next.request]
          /\ task' = [task EXCEPT ![id] = next.locals]
  /\ UNCHANGED <<service, env, clock, response, serverVars, kling, fallback, validating, keywordRuns, generator>>

\* await extractReferenceFrame(clipData.videoUrl) returns (Gemini copies)
FrameExtracted(id) ==
  /\ Scheduled
  /\ id \in DOMAIN task
  /\ task[id].pc = "extractReferenceFrame"
  /\ \E frame \in extractReferenceFrame(service, task[id].clipData.videoUrl, env) :
       LET locals == task[id]
           next == RunLoop(id, StoreClip(videoRequests[id], locals, locals.clipData),
                           [locals EXCEPT !.referenceImageUrl = frame,
                                          !.clipData = Undefined,
                                          !.i = locals.i + 1])
       IN /\ videoRequests' = [videoRequests EXCEPT ![id] = next.request]
          /\ task' = [task EXCEPT ![id] = next.locals]
  /\ UNCHANGED <<service, env, clock, response, serverVars, kling, fallback, validating, keywordRuns, generator>>

\* Uploaded, with the request id kept in one variable of the module: the
\* update goes to the record of the Job created last
UploadedToLatest(id) ==
  /\ Scheduled
  /\ id \in DOMAIN task
  /\ task[id].pc = "uploadToGoogleDrive"
  /\ \E driveResponse \in uploadToGoogleDrive(service, id,
                                              task[id].finalVideoUrl, env) :
       /\ videoRequests' =
            [videoRequests EXCEPT
               ![Cardinality(DOMAIN videoRequests)] =
                  Complete(@, task[id], driveResponse, clock)]
       /\ task' = [task EXCEPT ![id].pc = "resolved",
                               ![id].driveResponse = driveResponse]
  /\ UNCHANGED <<service, env, clock, response, serverVars, kling, fallback, validating, keywordRuns, generator>>

\* await uploadToGoogleDrive(requestId, finalVideoUrl) returns
Uploaded(id) ==
  /\ Scheduled
  /\ id \in DOMAIN task
  /\ task[id].pc = "uploadToGoogleDrive"
  /\ \E driveResponse \in uploadToGoogleDrive(service, id,
                                              task[id].finalVideoUrl, env) :
       /\ videoRequests' =
            [videoRequests EXCEPT
               ![id] = Complete(@, task[id], driveResponse, clock)]
       /\ task' = [task EXCEPT ![id].pc = "resolved",
                               ![id].driveResponse = driveResponse]
  /\ UNCHANGED <<service, env, clock, response, serverVars, kling, fallback, validating, keywordRuns, generator>>

\* ---------------------------------------------------------- status query
\* getVideoStatus(requestId): the live record, or a thrown Error
getVideoStatus(requestId) ==
  IF requestId \in DOMAIN videoRequests
  THEN [ok |-> TRUE, request |-> requestId]
  ELSE [ok |-> FALSE,
        error |-> <<"Video request", Str(requestId), "not found">>]

GetVideoStatus(requestId) ==
  /\ Scheduled
  /\ response' = getVideoStatus(requestId)
  /\ UNCHANGED <<pipelineVars, clock, serverVars, kling, fallback, validating, keywordRuns, generator>>

\* time passes
Tick ==
  /\ clock < MaxClock
  /\ clock' = clock + 1
  /\ UNCHANGED <<pipelineVars, response, serverVars, kling, fallback, validating, keywordRuns, generator>>

\* --------------------------------------------------------- list of jobs
\* request.completedAt and the Drive links: undefined until they are set
Property(request, name) ==
  IF name \in DOMAIN request THEN request[name] ELSE Undefined

\* the object listVideoRequests builds for one record
listEntry(request) ==
  [id |-> request.id, status |-> request.status,
   progress |-> request.progress, createdAt |-> request.createdAt,
   completedAt |-> Property(request, "completedAt"),
   finalVideoUrl |-> request.finalVideoUrl,
   googleDriveUrl |-> Property(request, "googleDriveUrl"),
   googleDriveDownloadUrl |-> Property(request, "googleDriveDownloadUrl")]

\* Object.values(videoRequests): the records in the order of their insertion
ObjectValues(reqs) == [k \in 1..Cardinality(DOMAIN reqs) |-> reqs[k]]

\* new Date(b.createdAt) - new Date(a.createdAt) <= 0: a stays before b
staysBefore(a, b) == b.createdAt.iso <= a.createdAt.iso

\* Array.prototype.sort with that comparator (a stable sort): record r is
\* placed behind the records it does not go before
RECURSIVE insertSorted(_, _)
insertSorted(sorted, r) ==
  IF sorted = <<>> THEN <<r>>
  ELSE IF staysBefore(sorted[1], r)
       THEN <<sorted[1]>> \o insertSorted(Tail(sorted), r)
       ELSE <<r>> \o sorted

RECURSIVE sortByCreatedAt(_)
sortByCreatedAt(list) ==
  IF list = <<>> THEN <<>>
  ELSE insertSorted(sortByCreatedAt(SubSeq(list, 1, Len(list) - 1)),
                    list[Len(list)])

\* part_001 getAllVideoRequests(): the records, newest first
getAllVideoRequests(reqs) == sortByCreatedAt(ObjectValues(reqs))

\* listVideoRequests() of the copy in use
listVideoRequests(svc, reqs) ==
  IF svc = "geminiMock" THEN getAllVideoRequests(reqs)
  ELSE [k \in 1..Cardinality(DOMAIN reqs) |-> listEntry(ObjectValues(reqs)[k])]

\* GET /list
ListVideoRequests ==
  /\ Scheduled
  /\ response' = [videos |-> listVideoRequests(service, videoRequests)]
  /\ UNCHANGED <<pipelineVars, clock, serverVars, kling, fallback, validating, keywordRuns, generator>>

\* ------------------------------------------------ advancedVideoRoutes.js
\* !script || script.trim() === '': the text has no word in it
isBlank(script) ==
  \A p \in 1..Len(script) : \A s \in 1..Len(script[p]) : script[p][s] = <<>>

\* the options the route passes on.  The routes over the stock copy build
\* { aspectRatio: '16:9', ...options }; the routes over part_001 build
\* { ...options, aspectRatio: '16:9', resolution: options.resolution || '1920x1080' }
enhancedOptions(svc, body) ==
  LET options == IF "options" \in DOMAIN body THEN body.options ELSE <<>>
  IN IF svc = "geminiMock"
     THEN [aspectRatio |-> "16:9",
           resolution |-> IF "resolution" \in DOMAIN options
                          THEN options.resolution ELSE "1920x1080"] @@ options
     ELSE options @@ [aspectRatio |-> "16:9"]

\* request bodies of POST /generate
GenerateBodies ==
  { [options |-> [maxClips |-> 1]],
    [script |-> ScriptEmpty, options |-> [maxClips |-> 1]],
    [script |-> ScriptSunrise],
    [script |-> ScriptSunrise, options |-> [maxClips |-> 0]],
    [script |-> ScriptSunrise, options |-> [clipDuration |-> 3, maxClips |-> 1]] }

\* POST /generate up to its await: the body is validated, then
\* generateVideoFromScript creates the record
PostGenerate(body) ==
  /\ Scheduled
  /\ Cardinality(DOMAIN videoRequests) < MaxPosts
  /\ IF "script" \notin DOMAIN body \/ isBlank(body.script)
     THEN /\ response' = [status |-> 400, error |-> <<"Script is required">>]
          /\ UNCHANGED <<videoRequests, task>>
     ELSE LET requestId == uuidv4
          IN /\ videoRequests' =
                  (requestId :> NewRequest(requestId, body.script,
                                           enhancedOptions(service, body), clock))
                    @@ videoRequests
             /\ task' = (requestId :>
                           [pc |-> "created", i |-> 0, segments |-> <<>>,
                            clipDuration |-> Undefined,
                            referenceImageUrl |-> Null, call |-> Undefined,
                            clipData |-> Undefined, finalVideoUrl |-> Undefined,
                            driveResponse |-> Undefined]) @@ task
             /\ UNCHANGED response
  /\ UNCHANGED <<service, env, clock, serverVars, kling, fallback, validating, keywordRuns, generator>>

\* POST /generate after its await: res.json(result), or the catch block
GenerateReplied(id) ==
  /\ Scheduled
  /\ id \in DOMAIN task
  /\ task[id].pc \in {"resolved", "rejected"}
  /\ response' = IF task[id].pc = "resolved"
                 THEN [status |-> 200, body |-> videoRequests[id]]
                 ELSE IF service = "geminiMock"
                 THEN [status |-> 500, error |-> <<"Failed to generate video">>,
                       message |-> Tail(videoRequests[id].message)]
                 ELSE [status |-> 500, error |-> Tail(videoRequests[id].message)]
  /\ task' = [task EXCEPT ![id].pc = "replied"]
  /\ UNCHANGED <<service, env, videoRequests, clock, serverVars, kling, fallback, validating, keywordRuns, generator>>

\* validateVideoUrl(url): false without a URL; otherwise whether the HEAD
\* request is answered with 200 for a video (an error is caught and
\* answered with false)
validateVideoUrl(url) == IF url = Null THEN {FALSE} ELSE BOOLEAN

\* what the status route writes into the object getVideoStatus returned
\* once validateVideoUrl has settled
validated(status, isValid) ==
  IF isValid THEN SetField(status, "urlValidation", "passed")
  ELSE SetField([status EXCEPT !.message =
                   <<"Warning:", "Final video URL may not be accessible">>],
                "urlValidation", "failed")

\* GET /status/:id up to its reply or to the await of validateVideoUrl.  The
\* routes over part_001 reply with the record at once.
GetStatus(id) ==
  /\ Scheduled
  /\ id \notin validating
  /\ LET status == getVideoStatus(id)
     IN IF ~status.ok
        THEN /\ response' = IF service = "geminiMock"
                            THEN [status |-> 500,
                                  error |-> <<"Failed to get video status">>,
                                  message |-> status.error]
                            ELSE [status |-> 404, error |-> status.error]
             /\ UNCHANGED validating
        ELSE IF /\ service # "geminiMock"
                /\ videoRequests[id].status = "completed"
                /\ videoRequests[id].finalVideoUrl # Null
        THEN /\ validating' = validating \cup {id}
             /\ UNCHANGED response
        ELSE /\ response' = [status |-> 200, body |-> videoRequests[id]]
             /\ UNCHANGED validating
  /\ UNCHANGED <<pipelineVars, clock, serverVars, kling, fallback, keywordRuns, generator>>

\* GET /status/:id after validateVideoUrl has settled: the outcome is
\* written into the live record, which is then sent
UrlValidated(id) ==
  /\ Scheduled
  /\ id \in validating
  /\ \E isValid \in validateVideoUrl(videoRequests[id].finalVideoUrl) :
       /\ videoRequests' =
            [videoRequests EXCEPT ![id] = validated(@, isValid)]
       /\ response' = [status |-> 200, body |-> videoRequests'[id]]
  /\ validating' = validating \ {id}
  /\ UNCHANGED <<service, env, task, clock, serverVars, kling, fallback, keywordRuns, generator>>

\* --------------------------------- videoGenerationService.js and server.js
\* createRequest(requestData)
createRequest(reqs, requestData) == (requestData.id :> requestData) @@ reqs

\* getRequest(requestId): videoRequests[requestId] || null
getRequest(reqs, requestId) ==
  IF requestId \in DOMAIN reqs THEN reqs[requestId] ELSE Null

\* updateRequest(requestId, updates): { ...videoRequests[requestId], ...updates }
updateRequest(reqs, requestId, updates) ==
  IF requestId \in DOMAIN reqs
  THEN [reqs EXCEPT ![requestId] = updates @@ @]
  ELSE reqs

\* the bodies clients post: complete, with optional fields, without description
Bodies ==
  { [title |-> "Launch", description |-> "Product launch teaser"],
    [title |-> "Launch", description |-> "Product launch teaser",
     style |-> "cinematic", duration |-> 10],
    [title |-> "Launch"] }

\* what startGeneration writes before it schedules the timer
processingUpdate(now) ==
  [status |-> "processing", processingStartedAt |-> toISOString(now)]

\* what the timer callback writes after the mock file has been written
completedUpdate(requestId, now) ==
  [status |-> "completed", completedAt |-> toISOString(now),
   outputPath |-> <<"uploads", "video_", Str(requestId), ".mp4">>,
   outputUrl |-> <<"/uploads/", "video_", Str(requestId), ".mp4">>]

\* POST /api/video/generate up to its call of startGeneration: validation,
\* then the request is stored with status pending
PostVideoGenerate(body) ==
  /\ starting = {}
  /\ Cardinality(DOMAIN requests) < MaxRequests
  /\ IF "title" \notin DOMAIN body \/ "description" \notin DOMAIN body
     THEN /\ response' = [status |-> 400,
                          body |-> [error |-> "Title and description are required"]]
          /\ UNCHANGED <<requests, starting>>
     ELSE LET requestId == Cardinality(DOMAIN requests) + 1
          IN /\ requests' = createRequest(requests,
                  [id |-> requestId, title |-> body.title,
                   description |-> body.description,
                   style |-> IF "style" \in DOMAIN body THEN body.style
                             ELSE "default",
                   duration |-> IF "duration" \in DOMAIN body THEN body.duration
                                ELSE 30,
                   status |-> "pending", createdAt |-> toISOString(clock)])
             /\ starting' = {requestId}
             /\ UNCHANGED response
  /\ UNCHANGED <<pipelineVars, clock, timers, kling, fallback, validating, keywordRuns, generator>>

\* startGeneration(requestId): called by the POST handler for the request it
\* has just stored, or by any other holder of the exported service.  It runs
\* without an await: processing is written and the timer scheduled at once.
StartGeneration(requestId) ==
  /\ starting = {} \/ starting = {requestId}
  /\ IF getRequest(requests, requestId) = Null
     THEN /\ response' = [ok |-> FALSE,
                          error |-> <<"Request with ID", Str(requestId), "not found">>]
          /\ UNCHANGED <<requests, timers>>
     ELSE /\ timers[requestId] < MaxTimers
          /\ requests' = updateRequest(requests, requestId, processingUpdate(clock))
          /\ timers' = [timers EXCEPT ![requestId] = @ + 1]
          /\ response' =
               IF starting = {requestId}
               THEN [status |-> 202,
                     body |-> [requestId |-> requestId,
                               message |-> "Video generation request accepted",
                               status |-> "pending"]]
               ELSE [ok |-> TRUE,
                     value |-> [success |-> TRUE,
                                message |-> "Video generation started"]]
  /\ starting' = {}
  /\ UNCHANGED <<pipelineVars, clock, kling, fallback, validating, keywordRuns, generator>>

\* a setTimeout callback of startGeneration runs: fs.writeFileSync either
\* writes the mock file, and the request is updated, or throws out of the
\* callback, and nothing is updated
TimeoutFires(requestId) ==
  /\ starting = {}
  /\ requestId \in DOMAIN requests
  /\ timers[requestId] > 0
  /\ timers' = [timers EXCEPT ![requestId] = @ - 1]
  /\ \E written \in BOOLEAN :
       requests' = IF written
                   THEN updateRequest(requests, requestId,
                                      completedUpdate(requestId, clock))
                   ELSE requests
  /\ UNCHANGED <<pipelineVars, clock, response, starting, kling, fallback, validating, keywordRuns, generator>>

\* GET /api/video/status/:requestId
GetStatusRoute(requestId) ==
  /\ starting = {}
  /\ response' = IF getRequest(requests, requestId) = Null
                 THEN [status |-> 404,
                       body |-> [error |-> "Video generation request not found"]]
                 ELSE [status |-> 200, body |-> getRequest(requests, requestId)]
  /\ UNCHANGED <<pipelineVars, clock, serverVars, kling, fallback, validating, keywordRuns, generator>>

\* ------------------------------------------- klingAiService (part_000)
\* `typeof extractKeywords` inside the module: the name is bound to the
\* function declared at the end of the module
typeofExtractKeywords == "function"

klingCommonWords ==
  {"a", "an", "the", "and", "or", "but", "in", "on", "at", "to", "for", "with",
   "by", "about", "as", "of"}

isKlingKeyword(word) == wordLength[word] > 3 /\ word \notin klingCommonWords

\* [...new Set(keywords)]: the first occurrence of each keyword, in order
RECURSIVE unique(_)
unique(keywords) ==
  IF keywords = <<>> THEN <<>>
  ELSE LET front == unique(SubSeq(keywords, 1, Len(keywords) - 1))
           last == keywords[Len(keywords)]
       IN IF \E k \in 1..Len(front) : front[k] = last THEN front
          ELSE Append(front, last)

\* The module's own extractKeywords(text), entered with `depth` frames on
\* the stack.  A call that would exceed the stack throws a RangeError.
RECURSIVE klingExtractKeywords(_, _)
klingExtractKeywords(text, depth) ==
  IF depth > MaxCallStack
  THEN [threw |-> TRUE, error |-> <<"Maximum call stack size exceeded">>]
  ELSE IF typeofExtractKeywords # "function"
  THEN LET words == [k \in 1..Len(text) |->
                       removePunctuation[toLowerCase[text[k]]]]
       IN [threw |-> FALSE, keywords |-> unique(SelectSeq(words, isKlingKeyword))]
  ELSE klingExtractKeywords(text, depth + 1)

stockVideos ==
  [nature |-> "ForBiggerEscapes.mp4", technology |-> "ForBiggerBlazes.mp4",
   people |-> "ForBiggerJoyrides.mp4", business |-> "ForBiggerMeltdowns.mp4",
   food |-> "BigBuckBunny.mp4", travel |-> "ElephantsDream.mp4",
   sports |-> "TearsOfSteel.mp4", default |-> "Sintel.mp4"]

\* Object.entries(categoryKeywords), in insertion order
categoryKeywords ==
  << <<"nature", {"nature", "landscape", "mountain", "ocean", "forest", "river",
                  "lake", "beach", "sky", "sunset", "sunrise"}>>,
     <<"technology", {"technology", "computer", "digital", "tech", "innovation",
                      "future", "robot", "ai", "artificial intelligence"}>>,
     <<"people", {"people", "person", "man", "woman", "child", "family",
                  "group", "crowd", "human"}>>,
     <<"business", {"business", "office", "work", "meeting", "corporate",
                    "professional", "company", "startup"}>>,
     <<"food", {"food", "meal", "restaurant", "cooking", "kitchen", "chef",
                "recipe", "dish", "cuisine"}>>,
     <<"travel", {"travel", "vacation", "trip", "journey", "adventure",
                  "tourism", "destination", "explore"}>>,
     <<"sports", {"sports", "athlete", "game", "competition", "fitness",
                  "exercise", "workout", "training"}>> >>

hasCategory(keyword) ==
  \E c \in 1..Len(categoryKeywords) :
    toLowerCase[keyword] \in categoryKeywords[c][2]

\* generateMockVideoUrl, with the scan going on after a match: the last
\* keyword that is in a category's list decides
generateMockVideoUrlOfLast(keywords) ==
  LET matching == SelectSeq(keywords, hasCategory)
  IN [host |-> "gtv-videos-bucket/sample",
      name |-> << IF matching = <<>> THEN stockVideos.default
                  ELSE LET last == matching[Len(matching)]
                           c == CHOOSE c \in 1..Len(categoryKeywords) :
                                  /\ toLowerCase[last] \in categoryKeywords[c][2]
                                  /\ \A d \in 1..(c - 1) :
                                       toLowerCase[last] \notin categoryKeywords[d][2]
                       IN stockVideos[categoryKeywords[c][1]] >>]

\* generateMockVideoUrl, looking at the first keyword only
generateMockVideoUrlOfFirst(keywords) ==
  [host |-> "gtv-videos-bucket/sample",
   name |-> << IF keywords = <<>> \/ ~hasCategory(keywords[1])
               THEN stockVideos.default
               ELSE LET c == CHOOSE c \in 1..Len(categoryKeywords) :
                               /\ toLowerCase[keywords[1]] \in categoryKeywords[c][2]
                               /\ \A d \in 1..(c - 1) :
                                    toLowerCase[keywords[1]] \notin categoryKeywords[d][2]
                    IN stockVideos[categoryKeywords[c][1]] >>]

\* the stock video of the first keyword that is in some category's list, in
\* the first such category; the default video when no keyword is
generateMockVideoUrl(keywords) ==
  LET matching == SelectSeq(keywords, hasCategory)
  IN [host |-> "gtv-videos-bucket/sample",
      name |-> << IF matching = <<>> THEN stockVideos.default
                  ELSE LET c == CHOOSE c \in 1..Len(categoryKeywords) :
                                  /\ toLowerCase[matching[1]] \in categoryKeywords[c][2]
                                  /\ \A d \in 1..(c - 1) :
                                       toLowerCase[matching[1]] \notin categoryKeywords[d][2]
                       IN stockVideos[categoryKeywords[c][1]] >>]

klingError(error) ==
  [status |-> "error",
   message |-> <<"Failed to generate video:">> \o error, error |-> error]

\* generateVideo(prompt, options): the results its promise can resolve to.
\* keys tells which of KLING_API_KEY_ID and KLING_API_KEY_SECRET are set.
generateVideo(prompt, options, keys) ==
  IF ~keys.ACCESS_KEY_ID \/ ~keys.ACCESS_KEY_SECRET
  THEN {klingError(<<"Kling AI API credentials not found in environment variables.">>)}
  ELSE LET extracted == klingExtractKeywords(prompt, 1)
       IN IF extracted.threw THEN {klingError(extracted.error)}
          ELSE { [taskId |-> "task", status |-> "submitted",
                  message |-> <<"Video generation task submitted successfully">>,
                  keywords |-> extracted.keywords],
                 klingError(<<"Failed to submit video generation task:", "rejected">>),
                 klingError(<<"Network Error">>) }

\* generateVideoWithFallback(prompt, options): the results its promise can
\* resolve to; it has no path that rejects
generateVideoWithFallback(prompt, options, keys) ==
  { IF result.status # "error" THEN result
    ELSE LET extracted == klingExtractKeywords(prompt, 1)
         IN IF extracted.threw THEN klingError(extracted.error)
            ELSE [status |-> "completed",
                  message |-> <<"Video generated using fallback mechanism">>,
                  videoUrl |-> generateMockVideoUrl(extracted.keywords),
                  videoDuration |-> "10", keywords |-> extracted.keywords,
                  isMock |-> TRUE]
    : result \in generateVideo(prompt, options, keys) }

\* the prompts callers pass: the empty text, the sentences of the scripts
\* and the segments the pipeline cuts them into
Prompts ==
  {<<>>}
  \cup { script[1][k] : <<script, k>> \in
            { <<s, j>> \in Scripts \X (1..3) : j <= Len(s[1]) } }
  \cup UNION { { parseScriptIntoSegments(script, d)[k] :
                   k \in 1..Len(parseScriptIntoSegments(script, d)) } :
               <<script, d>> \in Scripts \X {3, 4} }

KlingOptions ==
  { <<>>, [enhancePrompt |-> TRUE], [duration |-> 5], [aspectRatio |-> "9:16"] }

KlingKeys == [ACCESS_KEY_ID : BOOLEAN, ACCESS_KEY_SECRET : BOOLEAN]

\* a call of generateVideoWithFallback, from the call to the settled promise.
\* The credentials are read once, when the module is loaded.
GenerateVideoWithFallback(prompt, options, keys) ==
  /\ IF kling = Null THEN TRUE ELSE kling.keys = keys
  /\ \E result \in generateVideoWithFallback(prompt, options, keys) :
       kling' = [keys |-> keys, prompt |-> prompt, options |-> options,
                 result |-> result]
  /\ UNCHANGED <<pipelineVars, clock, response, serverVars, fallback, validating, keywordRuns, generator>>

\* checkVideoStatus(taskId): the results its promise can resolve to; every
\* error is caught and returned as a status object
checkVideoStatus(taskId, keys) ==
  LET failure(error) ==
        [status |-> "error",
         message |-> <<"Failed to check video status:">> \o error,
         error |-> error]
  IN IF ~keys.ACCESS_KEY_ID \/ ~keys.ACCESS_KEY_SECRET
     THEN {failure(<<"Kling AI API credentials not found in environment variables.">>)}
     ELSE { [status |-> "completed",
             message |-> <<"Video generation completed successfully">>,
             videoUrl |-> [host |-> "klingai", name |-> taskId],
             videoDuration |-> "5"],
            [status |-> "failed",
             message |-> <<"Video generation failed:", "rejected">>],
            [status |-> "processing",
             message |-> <<"Video generation is still in progress">>],
            failure(<<"Failed to check task status:", "task not found">>),
            failure(<<"Network Error">>) }

\* ------------------------------------------------ advancedVideoService.js
\* the words of a script, as the one string the compatibility layer passes on
RECURSIVE concat(_)
concat(lists) ==
  IF lists = <<>> THEN <<>> ELSE lists[1] \o concat(Tail(lists))

scriptText(script) ==
  concat([p \in 1..Len(script) |-> concat(script[p])])

\* `task_${Date.now()}`
taskIdOfNow(now) == <<"task_", Str(now)>>

\* the object generateVideoFromScript builds from the Kling result (its
\* keywords field, computed from the script alone, is left out)
formatResult(result, now) ==
  [id |-> IF "taskId" \in DOMAIN result THEN <<result.taskId>>
          ELSE taskIdOfNow(now),
   status |-> result.status, message |-> result.message,
   finalVideoUrl |-> Property(result, "videoUrl"),
   googleDriveUrl |-> Null, googleDriveDownloadUrl |-> Null]

\* options of the calls made through the compatibility layer
CompatOptions == { <<>>, [clipDuration |-> 3] }

\* generateVideoFromScript(script, options) of the compatibility layer, from
\* the call to the settled promise.  generateVideoWithFallback never
\* rejects, so the branch that falls back to the pipeline is never taken.
CompatGenerateVideoFromScript(script, options, keys) ==
  /\ IF kling = Null THEN TRUE ELSE kling.keys = keys
  /\ LET enhanced == [aspectRatio |-> "16:9"] @@ options
     IN \E result \in generateVideoWithFallback(scriptText(script), enhanced, keys) :
          /\ kling' = [keys |-> keys, prompt |-> scriptText(script),
                       options |-> enhanced, result |-> result]
          /\ response' = [call |-> "generateVideoFromScript",
                          threw |-> FALSE,
                          value |-> formatResult(result, clock)]
  /\ UNCHANGED <<pipelineVars, clock, serverVars, fallback, validating, keywordRuns, generator>>

\* ids asked about: the ids the layer hands out, and one it never does
StatusIds == { <<"task">>, taskIdOfNow(0), <<"missing">> }

\* getVideoRequestStatus(requestId) of the compatibility layer.
\* checkVideoStatus is an async function: the call returns its promise
\* without throwing, so neither catch block runs.
CompatGetVideoRequestStatus(requestId, keys) ==
  /\ IF kling = Null THEN TRUE ELSE kling.keys = keys
  /\ \E result \in checkVideoStatus(requestId, keys) :
       response' = [call |-> "getVideoRequestStatus", requestId |-> requestId,
                    threw |-> FALSE, value |-> result]
  /\ UNCHANGED <<pipelineVars, clock, serverVars, kling, fallback, validating, keywordRuns, generator>>

\* listVideoRequests() of the compatibility layer: the pipeline's list
CompatListVideoRequests ==
  /\ response' = [call |-> "listVideoRequests", threw |-> FALSE,
                  value |-> listVideoRequests(service, videoRequests)]
  /\ UNCHANGED <<pipelineVars, clock, serverVars, kling, fallback, validating, keywordRuns, generator>>

\* ------------------------------------------- the segmenter on its own
\* sentences of the scripts: one of five words and one of ten
SentencePool == { ScriptChef[1][2], ScriptChef[1][1] }

\* A paragraph is blank, or some sentences, after which the text may go on
\* with white space only (split then yields one more, empty, sentence)
SegmenterParagraphs ==
  {<<>>} \cup
  { sentences \o rest :
      sentences \in UNION { [1..n -> SentencePool] : n \in 1..MaxSentences },
      rest \in { <<>>, << <<>> >> } }

\* a script that begins with white space: split(/\s+/) yields an empty
\* string before the first word of its first sentence
indented(script) ==
  [script EXCEPT ![1] = [@ EXCEPT ![1] = <<"">> \o @]]

\* the scripts: one paragraph or more, with or without white space before
\* the first word
SegmenterScripts ==
  LET scripts == UNION { [1..n -> SegmenterParagraphs] : n \in 1..MaxParagraphs }
  IN scripts \cup { indented(script) : script \in { t \in scripts : t[1] # <<>> } }

\* parseScriptIntoSegments(script, clipDuration) is called
ParseScriptIntoSegments(script, clipDuration) ==
  /\ response' = [call |-> "parseScriptIntoSegments", script |-> script,
                  clipDuration |-> clipDuration,
                  segments |-> parseScriptIntoSegments(script, clipDuration)]
  /\ UNCHANGED <<pipelineVars, clock, serverVars, kling, fallback, validating, keywordRuns, generator>>

\* ------------------------- keywordExtractor (advancedVideoService.js)
\* the entries of stopwords.english among the words of the texts
stopwords == {"a", "an", "and", "in", "of", "the", "to", "with"}

\* the names an empty object literal inherits that are made of the letters
\* a-z only
ObjectPrototypeProperties == {"constructor"}

\* new natural.WordTokenizer().tokenize(text.toLowerCase()): the words
\* without their punctuation
tokenize(text) ==
  [k \in 1..Len(text) |-> removePunctuation[toLowerCase[text[k]]]]

\* token.length > 3 && !stopwords.includes(token) && /^[a-z]+$/.test(token);
\* every token of the texts is made of the letters a-z
isKeywordToken(token) == wordLength[token] > 3 /\ token \notin stopwords

Occurrences(tokens, word) ==
  Cardinality({ k \in 1..Len(tokens) : tokens[k] = word })

\* wordFrequency[token] after the forEach: the number of occurrences; for an
\* inherited name `(wordFrequency[token] || 0) + 1` appends to the text of
\* the inherited function, and the value is a string that is not a number
wordFrequency(tokens, token) ==
  [isNumber |-> token \notin ObjectPrototypeProperties,
   times |-> Occurrences(tokens, token)]

\* Object.entries(wordFrequency): one entry per token, in the order of the
\* first occurrences (no token is an integer index)
ObjectEntries(tokens) ==
  LET keys == unique(tokens)
  IN [k \in 1..Len(keys) |->
        [word |-> keys[k], frequency |-> wordFrequency(tokens, keys[k])]]

\* (a, b) => b[1] - a[1]; NaN counts as +0 in a sort
byFrequency(a, b) ==
  IF a.frequency.isNumber /\ b.frequency.isNumber
  THEN b.frequency.times - a.frequency.times
  ELSE 0

\* whether byFrequency orders the entries consistently: entries that compare
\* equal to a third one compare equal to each other
isConsistent(entries) ==
  \A i, j, k \in 1..Len(entries) :
    (byFrequency(entries[i], entries[k]) = 0
       /\ byFrequency(entries[k], entries[j]) = 0)
      => byFrequency(entries[i], entries[j]) = 0

RECURSIVE insertByFrequency(_, _)
insertByFrequency(sorted, entry) ==
  IF sorted = <<>> THEN <<entry>>
  ELSE IF byFrequency(sorted[1], entry) > 0 THEN <<entry>> \o sorted
       ELSE <<sorted[1]>> \o insertByFrequency(Tail(sorted), entry)

RECURSIVE stableSort(_)
stableSort(entries) ==
  IF entries = <<>> THEN <<>>
  ELSE insertByFrequency(stableSort(SubSeq(entries, 1, Len(entries) - 1)),
                         entries[Len(entries)])

\* Array.prototype.sort with byFrequency: a stable sort.  With a comparator
\* that is not consistent the order is implementation-defined: some
\* arrangement of the entries, the same one for the same array.
sortByFrequency(entries) ==
  IF isConsistent(entries) THEN stableSort(entries)
  ELSE LET n == Len(entries)
           arrangement == CHOOSE f \in [1..n -> 1..n] :
                            \A i, j \in 1..n : i # j => f[i] # f[j]
       IN [k \in 1..n |-> entries[arrangement[k]]]

\* sortedWords.splice(0, maxKeywords) on a list kept from the first call on:
\* every call takes its keywords away from the list
extractKeywordsSplicing(text, maxKeywords) ==
  LET sortedEntries == sortByFrequency(
                         ObjectEntries(SelectSeq(tokenize(text), isKeywordToken)))
      sortedWords == [k \in 1..Len(sortedEntries) |-> sortedEntries[k].word]
      taken == Len(keywordRuns) * maxKeywords
      from == IF taken < Len(sortedWords) THEN taken ELSE Len(sortedWords)
      to == IF from + maxKeywords < Len(sortedWords)
            THEN from + maxKeywords ELSE Len(sortedWords)
  IN SubSeq(sortedWords, from + 1, to)

\* extractKeywords(text, maxKeywords) for a string.  No step of the try
\* block throws for a string, so the catch block with
\* simpleKeywordExtraction is not entered.
extractKeywords(text, maxKeywords) ==
  LET sortedEntries == sortByFrequency(
                         ObjectEntries(SelectSeq(tokenize(text), isKeywordToken)))
      sortedWords == [k \in 1..Len(sortedEntries) |-> sortedEntries[k].word]
  IN SubSeq(sortedWords, 1,
            IF Len(sortedWords) < maxKeywords THEN Len(sortedWords)
            ELSE maxKeywords)

\* the words of the texts handed to the extractors
KeywordVocabulary == {"river", "Mountain", "mountain", "constructor", "with"}

KeywordTexts == UNION { [1..n -> KeywordVocabulary] : n \in 0..MaxWords }

\* A call is made on any input; the calls after it repeat that input
Repeats(fn, text, maxKeywords) ==
  IF keywordRuns = <<>> THEN TRUE
  ELSE /\ keywordRuns[1].fn = fn
       /\ keywordRuns[1].text = text
       /\ keywordRuns[1].maxKeywords = maxKeywords

\* keywordExtractor.extractKeywords(text, maxKeywords) is called
ExtractKeywords(text, maxKeywords) ==
  /\ Len(keywordRuns) < MaxRuns
  /\ Repeats("extractKeywords", text, maxKeywords)
  /\ keywordRuns' = Append(keywordRuns,
                           [fn |-> "extractKeywords", text |-> text,
                            maxKeywords |-> maxKeywords,
                            keywords |-> extractKeywords(text, maxKeywords)])
  /\ UNCHANGED <<pipelineVars, clock, response, serverVars, kling, fallback,
                 validating, generator>>

\* extractKeywords(prompt) of the stock copy is called: at most 3 keywords
SearchKeywords(prompt) ==
  /\ Len(keywordRuns) < MaxRuns
  /\ Repeats("search", prompt, 3)
  /\ keywordRuns' = Append(keywordRuns,
                           [fn |-> "search", text |-> prompt, maxKeywords |-> 3,
                            keywords |-> extractSearchKeywords(prompt)])
  /\ UNCHANGED <<pipelineVars, clock, response, serverVars, kling, fallback,
                 validating, generator>>

\* -------------------------------------------- AdvancedVideoGenerator
\* path.join(this.config.tempFolder, `clip_${index...padStart(3, '0')}.mp4`)
clipPath(index) == [clip |-> Str(index)]

\* the config objects the constructor is called with
GeneratorConfigs == { [debug |-> FALSE], [maxClips |-> 2] }

\* new AdvancedVideoGenerator(config): the fields the clip loop reads
AdvancedVideoGenerator(config) ==
  [config |-> [maxClips |-> IF "maxClips" \in DOMAIN config
                            THEN config.maxClips ELSE 15],
   clipCache |-> [previousClips |-> <<>>, styleReference |-> Null],
   calls |-> <<>>]

\* segments.slice(0, this.config.maxClips)
slice(segments, end) ==
  [k \in 1..(IF Len(segments) < end THEN Len(segments) ELSE end) |-> segments[k]]

\* this.clipCache.previousClips.slice(-2)
lastTwo(previousClips) ==
  LET n == Len(previousClips)
  IN IF n <= 2 THEN previousClips ELSE <<previousClips[n - 1], previousClips[n]>>

\* createInitialPrompt(segment, style, characters)
createInitialPrompt(segment, style, characters) ==
  [kind |-> "initial", segment |-> segment, style |-> style,
   characters |-> characters]

\* createConsistentPrompt(segment, style, characters, previousClipPaths): the
\* template does not mention previousClipPaths
createConsistentPrompt(segment, style, characters, previousClipPaths) ==
  [kind |-> "consistent", segment |-> segment, style |-> style,
   characters |-> characters]

\* generateSingleClip(prompt, index): the path of the placeholder file, or
\* the error of fs.writeFile rethrown
generateSingleClip(prompt, index) ==
  { [ok |-> TRUE, clipPath |-> clipPath(index)],
    [ok |-> FALSE, error |-> <<"ENOSPC">>] }

\* the segments of the calls: numbered texts without actions
GeneratorSegments ==
  { [k \in 1..n |-> [text |-> <<"segment", Str(k)>>, actions |-> <<>>]] :
      n \in 0..MaxSegments }

\* the constructor runs
NewAdvancedVideoGenerator(config) ==
  /\ generator = Null
  /\ generator' = AdvancedVideoGenerator(config)
  /\ UNCHANGED <<pipelineVars, clock, response, serverVars, kling, fallback,
                 validating, keywordRuns>>

\* lines 411-416: the push of a new clip in the loop and the length test
cached(previousClips, path) ==
  LET pushed == Append(previousClips, path)
  IN IF Len(pushed) > 3 THEN Tail(pushed) ELSE pushed

\* generateConsistentClips(segments, style, characters) is called and runs
\* to its first await, or returns [] when there is nothing to process
GenerateConsistentClips(segments, style, characters) ==
  /\ generator # Null
  /\ Len(generator.calls) < MaxRuns
  /\ LET segmentsToProcess == slice(segments, generator.config.maxClips)
         call == [segmentsToProcess |-> segmentsToProcess, style |-> style,
                  characters |-> characters, clipPaths |-> <<>>,
                  references |-> <<>>]
     IN generator' =
          [generator EXCEPT !.calls =
             Append(@,
               IF Len(segmentsToProcess) > 0
               THEN call @@ [pc |-> "generateSingleClip", i |-> 0,
                             prompt |-> createInitialPrompt(
                                          segmentsToProcess[1], style, characters)]
               ELSE call @@ [pc |-> "returned", i |-> 0, prompt |-> Null])]
  /\ UNCHANGED <<pipelineVars, clock, response, serverVars, kling, fallback,
                 validating, keywordRuns>>

\* await generateSingleClip(...) of call c settles: the clip is recorded and
\* cached, and the loop runs to the next await or to the return
SingleClipGenerated(c) ==
  /\ generator # Null
  /\ c \in DOMAIN generator.calls
  /\ generator.calls[c].pc = "generateSingleClip"
  /\ \E result \in generateSingleClip(generator.calls[c].prompt,
                                      generator.calls[c].i) :
       LET call == generator.calls[c]
           cache == generator.clipCache
           n == Len(call.segmentsToProcess)
           previousClips ==
             IF call.i = 0 THEN Append(cache.previousClips, result.clipPath)
             ELSE cached(cache.previousClips, result.clipPath)
           i == call.i + 1
       IN IF ~result.ok
          THEN generator' = [generator EXCEPT !.calls[c].pc = "thrown"]
          ELSE generator' =
                 [generator EXCEPT
                    !.clipCache =
                       [previousClips |-> previousClips,
                        styleReference |-> IF call.i = 0 THEN result.clipPath
                                           ELSE cache.styleReference],
                    !.calls[c] =
                       IF i < n
                       THEN [call EXCEPT
                               !.clipPaths = Append(@, result.clipPath),
                               !.i = i,
                               !.references = Append(@, lastTwo(previousClips)),
                               !.prompt = createConsistentPrompt(
                                            call.segmentsToProcess[i + 1],
                                            call.style, call.characters,
                                            lastTwo(previousClips))]
                       ELSE [call EXCEPT
                               !.clipPaths = Append(@, result.clipPath),
                               !.i = i,
                               !.pc = "returned"]]
  /\ UNCHANGED <<pipelineVars, clock, response, serverVars, kling, fallback,
                 validating, keywordRuns>>

\* ------------------------------------------------- fallback selection
\* the keywords an extractor hands to generateMockVideoUrl
KeywordWords == {"mountain", "chef", "Kitchen", "robot", "team", "quickly"}

KeywordLists ==
  {<<>>} \cup { <<w>> : w \in KeywordWords }
         \cup { <<w, v>> : <<w, v>> \in KeywordWords \X KeywordWords }

\* generateMockVideoUrl(keywords) is called: the Kling fallback picks an asset
KlingFallbackRun(keywords) ==
  /\ Len(fallback) < MaxRuns
  /\ fallback' = Append(fallback,
                        [path |-> "kling", text |-> keywords,
                         asset |-> generateMockVideoUrl(keywords)])
  /\ UNCHANGED <<pipelineVars, clock, response, serverVars, kling, validating, keywordRuns, generator>>

\* searchStockVideos(query) is called and takes its sample-video path (no
\* API key here): the stock fallback picks an asset
StockFallbackRun(prompt) ==
  /\ Len(fallback) < MaxRuns
  /\ ~env.apiKey
  /\ \E videoUrls \in searchStockVideos(env) :
       fallback' = Append(fallback,
                          [path |-> "stock", text |-> extractSearchKeywords(prompt),
                           asset |-> videoUrls[1]])
  /\ UNCHANGED <<pipelineVars, clock, response, serverVars, kling, validating, keywordRuns, generator>>

\* ------------------------------------------------------- specifications
\* The fields of env a deployment never reads are fixed: stock and gemini do
\* not read NODE_ENV, gemini has a built-in key, and geminiMock does not
\* call the provider in development mode or without a key.
Init ==
  /\ service \in Services
  /\ env \in Envs
  /\ service = "stock" => env.NODE_ENV = "production"
  /\ service = "gemini" => env.NODE_ENV = "production" /\ env.apiKey
  /\ service = "geminiMock" /\ env.NODE_ENV = "development"
       => env.apiKey /\ ~env.providerDown
  /\ service = "geminiMock" /\ ~env.apiKey => ~env.providerDown
  /\ clock = 0
  /\ videoRequests = <<>>
  /\ task = <<>>
  /\ response = Undefined
  /\ requests = <<>>
  /\ timers = [requestId \in 1..MaxRequests |-> 0]
  /\ starting = {}
  /\ kling = Null
  /\ fallback = <<>>
  /\ validating = {}
  /\ keywordRuns = <<>>
  /\ generator = Null

\* the pipeline: jobs of the deployed copy and status queries, for the ids
\* the service has handed out and for an id it never will
Next ==
  \/ \E call \in Submissions : GenerateVideoFromScript(call[1], call[2])
  \/ \E id \in 1..MaxJobs : SegmentScript(id)
  \/ \E id \in 1..MaxJobs : ClipGenerated(id)
  \/ \E id \in 1..MaxJobs : FrameExtracted(id)
  \/ \E id \in 1..MaxJobs : Uploaded(id)
  \/ \E requestId \in DOMAIN videoRequests \cup {MaxJobs + 1} :
       GetVideoStatus(requestId)

Spec == Init /\ [][Next]_vars

\* Which awaits are sure to settle.  A call that makes no request (sample
\* videos, mock clips after a setTimeout) settles; so does a request made
\* with a timeout (part_002: 60 s for the clip, 30 s for the download of the
\* frame's video).  A request made without a timeout settles only if the
\* other side answers.
clipResponds ==
  CASE service = "stock" -> ~env.apiKey
    [] service = "gemini" -> TRUE
    [] service = "geminiMock" -> env.NODE_ENV = "development" \/ ~env.apiKey

frameResponds(id) ==
  /\ id \in DOMAIN task
  /\ task[id].pc = "extractReferenceFrame"
  /\ \/ service = "gemini"
     \/ /\ service = "geminiMock"
        /\ \/ env.NODE_ENV = "development"
           \/ isMockUrl(task[id].clipData.videoUrl)

uploadResponds(id) ==
  /\ id \in DOMAIN task
  /\ task[id].pc = "uploadToGoogleDrive"
  /\ service = "geminiMock"
  /\ env.NODE_ENV = "development" \/ isMockUrl(task[id].finalVideoUrl)

\* the pipeline with its scheduling: a continuation that is ready runs, and an
\* await that is sure to settle does settle
Fairness ==
  \A id \in 1..MaxJobs :
    /\ WF_vars(SegmentScript(id))
    /\ WF_vars(clipResponds /\ ClipGenerated(id))
    /\ WF_vars(frameResponds(id) /\ FrameExtracted(id))
    /\ WF_vars(uploadResponds(id) /\ Uploaded(id))

SpecLive == Init /\ [][Next]_vars /\ Fairness

\* server.js with videoGenerationService.js; the pipeline copies play no part
InitServer ==
  /\ Init
  /\ service = "stock"
  /\ env = [apiKey |-> FALSE, providerDown |-> FALSE, NODE_ENV |-> "production"]

NextServer ==
  \/ \E body \in Bodies : PostVideoGenerate(body)
  \/ \E requestId \in 1..(MaxRequests + 1) : StartGeneration(requestId)
  \/ \E requestId \in 1..MaxRequests : TimeoutFires(requestId)
  \/ \E requestId \in 1..(MaxRequests + 1) : GetStatusRoute(requestId)
  \/ Tick

SpecServer == InitServer /\ [][NextServer]_vars

\* a timer that has been set fires: the processing time is at most 10 s
ServerFairness ==
  \A requestId \in 1..MaxRequests : WF_vars(TimeoutFires(requestId))

SpecServerLive == InitServer /\ [][NextServer]_vars /\ ServerFairness

\* klingAiService called on its own
NextKling ==
  \E prompt \in Prompts, options \in KlingOptions, keys \in KlingKeys :
    GenerateVideoWithFallback(prompt, options, keys)

SpecKling == InitServer /\ [][NextKling]_vars

\* the routes of advancedVideoRoutes.js over the stock copy and over the
\* copy of part_001, with no provider key configured
InitRoutes ==
  /\ Init
  /\ service \in {"stock", "geminiMock"}
  /\ env = [apiKey |-> FALSE, providerDown |-> FALSE, NODE_ENV |-> "production"]

NextRoutes ==
  \/ \E body \in GenerateBodies : PostGenerate(body)
  \/ \E id \in 1..MaxPosts : SegmentScript(id)
  \/ \E id \in 1..MaxPosts : ClipGenerated(id)
  \/ \E id \in 1..MaxPosts : FrameExtracted(id)
  \/ \E id \in 1..MaxPosts : Uploaded(id)
  \/ \E id \in 1..MaxPosts : GenerateReplied(id)
  \/ \E requestId \in 1..(MaxPosts + 1) : GetVideoStatus(requestId)
  \/ ListVideoRequests
  \/ Tick

SpecRoutes == InitRoutes /\ [][NextRoutes]_vars

\* the status route of advancedVideoRoutes.js over the jobs of the pipeline
NextStatus ==
  \/ \E call \in Submissions : GenerateVideoFromScript(call[1], call[2])
  \/ \E id \in 1..MaxJobs : SegmentScript(id)
  \/ \E id \in 1..MaxJobs : ClipGenerated(id)
  \/ \E id \in 1..MaxJobs : FrameExtracted(id)
  \/ \E id \in 1..MaxJobs : Uploaded(id)
  \/ \E id \in 1..(MaxJobs + 1) : GetStatus(id)
  \/ \E id \in 1..MaxJobs : UrlValidated(id)

SpecStatus == InitRoutes /\ [][NextStatus]_vars

\* parseScriptIntoSegments called on its own, once per behaviour
NextSegmenter ==
  /\ response = Undefined
  /\ \E script \in SegmenterScripts, clipDuration \in 1..MaxClipDuration :
       ParseScriptIntoSegments(script, clipDuration)

SpecSegmenter == InitServer /\ [][NextSegmenter]_vars

\* the keyword extractors called on their own
NextKeywords ==
  \/ \E text \in KeywordTexts, maxKeywords \in 1..MaxKeywords :
       ExtractKeywords(text, maxKeywords)
  \/ \E prompt \in KeywordTexts : SearchKeywords(prompt)

SpecKeywords == InitServer /\ [][NextKeywords]_vars

\* one AdvancedVideoGenerator and the calls of its generateConsistentClips
NextGenerator ==
  \/ \E config \in GeneratorConfigs : NewAdvancedVideoGenerator(config)
  \/ \E segments \in GeneratorSegments :
       GenerateConsistentClips(segments, "cinematic", <<"chef">>)
  \/ \E c \in 1..MaxRuns : SingleClipGenerated(c)

SpecGenerator == InitServer /\ [][NextGenerator]_vars

\* the compatibility layer of advancedVideoService.js over klingAiService
NextCompat ==
  \/ \E script \in Scripts, options \in CompatOptions, keys \in KlingKeys :
       CompatGenerateVideoFromScript(script, options, keys)
  \/ \E requestId \in StatusIds, keys \in KlingKeys :
       CompatGetVideoRequestStatus(requestId, keys)
  \/ CompatListVideoRequests
  \/ Tick

SpecCompat == InitServer /\ [][NextCompat]_vars

\* ------------------------------------------------------------ properties
Terminal == {"completed", "failed"}

\* the segments a job's script was cut into (known once segmentation has run)
Segmented(id) == task[id].pc # "created"

\* a clip that did not come from the provider: a sample video or a mock URL
IsFallbackClip(clip) ==
  clip.videoUrl \in sampleVideos \/ isMockUrl(clip.videoUrl)

\* the upload did not reach Drive
PublishFailed(driveResponse) ==
  driveResponse.fileId = Null \/ "isMock" \in DOMAIN driveResponse

\* C1: once the status of a job is completed or failed, no step changes it:
\* not a pipeline step, a timer callback, a repeated start or a status query.
TerminalStatusIsFinal ==
  [][ /\ \A id \in DOMAIN requests :
           requests[id].status \in Terminal
             => requests'[id].status = requests[id].status
      /\ \A id \in DOMAIN videoRequests :
           videoRequests[id].status \in Terminal
             => videoRequests'[id].status = videoRequests[id].status ]_vars

\* C2: with the provider failing on every call, a job of N >= 1 segments is
\* never failed, and when completed it has N clips, all of them fallbacks.
ProviderDownJobCompletes ==
  \A id \in DOMAIN videoRequests :
    (env.providerDown /\ Segmented(id) /\ Len(task[id].segments) >= 1)
      => /\ videoRequests[id].status # "failed"
         /\ videoRequests[id].status = "completed"
              => /\ Len(videoRequests[id].clips) = Len(task[id].segments)
                 /\ \A k \in 1..Len(videoRequests[id].clips) :
                      IsFallbackClip(videoRequests[id].clips[k])

\* C3: generateVideoWithFallback called while the provider is unavailable
\* (here: credentials missing) returns status completed with a video URL.
FallbackAlwaysCompletes ==
  (kling # Null /\ ~(kling.keys.ACCESS_KEY_ID /\ kling.keys.ACCESS_KEY_SECRET))
    => /\ kling.result.status = "completed"
       /\ "videoUrl" \in DOMAIN kling.result

\* C4: the clips of a job are a prefix of its segments in index order:
\* clips[i].index = i and clips[i].segment = segments[i] (the model's
\* sequences count from one, the indices from zero).
ClipsArePrefixOfSegments ==
  \A id \in DOMAIN videoRequests :
    LET clips == videoRequests[id].clips
        segments == task[id].segments
    IN /\ Len(clips) <= Len(segments)
       /\ \A k \in 1..Len(clips) :
            /\ clips[k].index = k - 1
            /\ clips[k].segment = segments[k]

ClipsArePrefixOfSegments_witness ==
  \E id \in DOMAIN videoRequests :
    /\ Len(videoRequests[id].clips) = 2
    /\ Len(task[id].segments) = 3

\* C5: the progress of a job never decreases from one state to the next, and
\* a completed job shows progress 100.
ProgressNeverDecreases ==
  /\ [][ \A id \in DOMAIN videoRequests :
            videoRequests'[id].progress >= videoRequests[id].progress ]_vars
  /\ [](\A id \in DOMAIN videoRequests :
          videoRequests[id].status = "completed"
            => videoRequests[id].progress = 100)

ProgressNeverDecreases_witness ==
  \E id \in DOMAIN videoRequests :
    /\ videoRequests[id].status = "completed"
    /\ Len(videoRequests[id].clips) = 3

\* C6: at every point where a query can run, a processing job shows
\* progress = floor(100 * len(clips) / len(segments)).
ProgressMatchesClips ==
  Scheduled =>
    \A id \in DOMAIN videoRequests :
      (videoRequests[id].status = "processing" /\ Len(task[id].segments) > 0)
        => videoRequests[id].progress =
             (100 * Len(videoRequests[id].clips)) \div Len(task[id].segments)

ZeroSegmentsNeverCompletes ==
  \A id \in DOMAIN videoRequests :
    (Segmented(id) /\ Len(task[id].segments) = 0)
      => /\ videoRequests[id].status # "completed"
         /\ videoRequests[id].status = "failed"
              => /\ videoRequests[id].message # <<>>
                 /\ videoRequests[id].clips = <<>>

\* the status changes C9 allows as first stated
PendingSequences ==
  { <<"pending", "processing">>, <<"processing", "completed">>,
    <<"processing", "failed">>, <<"pending", "failed">> }

\* C9 as first stated: a job record is created pending; it is processing
\* only once segmentation has produced a segment; its status changes only
\* along pending -> processing -> completed | failed and pending -> failed.
JobStartsPending ==
  [][ \A id \in DOMAIN videoRequests' :
        /\ id \notin DOMAIN videoRequests
             => videoRequests'[id].status = "pending"
        /\ id \in DOMAIN videoRequests
             => \/ videoRequests'[id].status = videoRequests[id].status
                \/ <<videoRequests[id].status, videoRequests'[id].status>>
                     \in PendingSequences
        /\ videoRequests'[id].status = "processing"
             => Segmented(id)' /\ Len(task'[id].segments) >= 1 ]_vars

\* C9: a job record is created in status processing, before segmentation
\* has run, and is never pending; its status changes only from processing to
\* completed and from processing to failed.
JobStartsProcessing ==
  [][ \A id \in DOMAIN videoRequests' :
        /\ videoRequests'[id].status # "pending"
        /\ id \notin DOMAIN videoRequests
             => /\ videoRequests'[id].status = "processing"
                /\ ~Segmented(id)'
        /\ id \in DOMAIN videoRequests
             => \/ videoRequests'[id].status = videoRequests[id].status
                \/ /\ videoRequests[id].status = "processing"
                   /\ videoRequests'[id].status \in Terminal ]_vars

JobStartsProcessing_witness ==
  \E id \in DOMAIN videoRequests :
    /\ ~Segmented(id)
    /\ videoRequests[id].status = "processing"

\* C10: when the upload of the final video fails the job is completed all
\* the same, and its final video URL is the URL of its last clip.
PublishFailureStillCompletes ==
  \A id \in DOMAIN videoRequests :
    (task[id].pc = "resolved" /\ PublishFailed(task[id].driveResponse))
      => /\ videoRequests[id].status = "completed"
         /\ Len(videoRequests[id].clips) > 0
         /\ videoRequests[id].finalVideoUrl =
              videoRequests[id].clips[Len(videoRequests[id].clips)].videoUrl

PublishFailureStillCompletes_witness ==
  \E id \in DOMAIN videoRequests :
    /\ task[id].pc = "resolved"
    /\ PublishFailed(task[id].driveResponse)

\* C11: when the upload of the final video fails, the record of the
\* completed job carries a warning that describes the failure.
PublishFailureIsRecorded ==
  \A id \in DOMAIN videoRequests :
    (task[id].pc = "resolved" /\ PublishFailed(task[id].driveResponse))
      => \/ "warning" \in DOMAIN videoRequests[id]
         \/ "warnings" \in DOMAIN videoRequests[id]
         \/ videoRequests[id].message
              # <<"Video generation completed successfully">>

\* the frame of the last clip of the job was asked of the extractor proper:
\* part_002 always does, part_001 outside development mode and mock URLs
ExtractionAttempted(id) ==
  LET clips == videoRequests[id].clips
  IN /\ Len(clips) > 0
     /\ \/ service = "gemini"
        \/ /\ service = "geminiMock"
           /\ env.NODE_ENV # "development"
           /\ ~isMockUrl(clips[Len(clips)].videoUrl)

\* C12: when the frame of a clip was asked of the extractor, the reference
\* the next clip is generated with is that frame, or null when extraction
\* failed; a failed extraction does not fail the job.
FailedExtractionYieldsNull ==
  \A id \in DOMAIN videoRequests :
    ExtractionAttempted(id)
      => LET clips == videoRequests[id].clips
             reference == task[id].referenceImageUrl
         IN /\ \/ reference = Null
               \/ reference = FrameOf(clips[Len(clips)].videoUrl)
            /\ videoRequests[id].status = "failed"
                 => task[id].i < Len(task[id].segments)

\* C13: every clip of a job says whether it is a fallback: isFallback is
\* true on a sample or mock clip and false on a clip of the provider.
ClipsAreMarkedFallback ==
  \A id \in DOMAIN videoRequests :
    \A k \in 1..Len(videoRequests[id].clips) :
      LET clip == videoRequests[id].clips[k]
      IN /\ "isFallback" \in DOMAIN clip
         /\ clip.isFallback = IsFallbackClip(clip)

\* the two fallback selections called on their own
NextFallback ==
  \/ \E keywords \in KeywordLists : KlingFallbackRun(keywords)
  \/ \E prompt \in Prompts : StockFallbackRun(prompt)

SpecFallback == InitServer /\ [][NextFallback]_vars

\* C14: two runs of a fallback path on the same text select the same asset.
FallbackIsDeterministic ==
  \A a, b \in 1..Len(fallback) :
    (fallback[a].path = fallback[b].path /\ fallback[a].text = fallback[b].text)
      => fallback[a].asset = fallback[b].asset

\* the words of the seven category lists
CategoryWords == UNION { categoryKeywords[c][2] : c \in 1..Len(categoryKeywords) }

\* the assets of the seven categories
CategoryAssets ==
  { stockVideos[categoryKeywords[c][1]] : c \in 1..Len(categoryKeywords) }

\* C15: the Kling fallback selects the default asset exactly when no keyword
\* (compared in lower case) is in a category's list, and otherwise the asset
\* of one of the seven categories.
DefaultIffNoCategory ==
  \A r \in 1..Len(fallback) :
    fallback[r].path = "kling"
      => LET keywords == fallback[r].text
             matched == \E k \in 1..Len(keywords) :
                          toLowerCase[keywords[k]] \in CategoryWords
             name == fallback[r].asset.name[1]
         IN /\ (name = stockVideos.default) <=> ~matched
            /\ matched => name \in CategoryAssets
            /\ Cardinality(CategoryAssets) = 7

DefaultIffNoCategory_witness ==
  \E r \in 1..Len(fallback) :
    /\ fallback[r].path = "kling"
    /\ fallback[r].text = <<"team", "chef">>
    /\ fallback[r].asset.name = <<stockVideos.food>>


\* C16: a status query for a job id that was never issued fails with
\* NotFound; it returns no status object and no placeholder
UnknownIdStatusFails ==
  ( /\ "call" \in DOMAIN response
    /\ response.call = "getVideoRequestStatus"
    /\ response.requestId = <<"missing">> )
    => response.threw

\* C17: list() returns every Job of the registry exactly once, the most
\* recently created first
ListIsNewestFirst ==
  [][ ("videos" \in DOMAIN response' /\ response' # response)
        => LET list == response'.videos
           IN /\ { list[k].id : k \in 1..Len(list) } = DOMAIN videoRequests'
              /\ Len(list) = Cardinality(DOMAIN videoRequests')
              /\ \A j, k \in 1..Len(list) :
                   j < k => list[j].createdAt.iso >= list[k].createdAt.iso ]_vars

\* C18: a job id returned by a successful submit is known to the registry
\* afterwards: list() contains a Job with that id
SubmittedIdIsListed ==
  ( /\ "call" \in DOMAIN response
    /\ response.call = "generateVideoFromScript"
    /\ ~response.threw )
    => LET list == listVideoRequests(service, videoRequests)
       IN \E k \in 1..Len(list) : list[k].id = response.value.id

\* C19: no Job is created for a submission whose script is empty or
\* missing, or whose maxClips is below 1
InvalidSubmissionCreatesNoJob ==
  \A id \in DOMAIN videoRequests :
    /\ ~isBlank(videoRequests[id].script)
    /\ "maxClips" \in DOMAIN videoRequests[id].options
         => videoRequests[id].options.maxClips >= 1

\* C20: a Job submitted with maxClips = m never holds more than m clips
ClipsWithinMaxClips ==
  \A id \in DOMAIN videoRequests :
    "maxClips" \in DOMAIN videoRequests[id].options
      => Len(videoRequests[id].clips) <= videoRequests[id].options.maxClips


\* C21: every call of generateVideoClip made for a Job is made with aspect
\* ratio 16:9, whatever aspectRatio the caller put into the options
ClipCallsUseConfiguredAspectRatio ==
  \A id \in DOMAIN task :
    task[id].pc = "generateVideoClip"
      => finalOptions(task[id].call.options).aspectRatio = "16:9"

ClipCallsUseConfiguredAspectRatio_witness ==
  \E id \in DOMAIN task :
    /\ task[id].pc = "generateVideoClip"
    /\ task[id].i = 1
    /\ videoRequests[id].options.aspectRatio = "9:16"


\* C22: the Job record generateVideoFromScript returns reports
\* options.aspectRatio = '16:9', whatever options the caller passed
ReturnedRecordReportsAspectRatio ==
  \A id \in DOMAIN videoRequests :
    task[id].pc = "resolved"
      => /\ "aspectRatio" \in DOMAIN videoRequests[id].options
         /\ videoRequests[id].options.aspectRatio = "16:9"


\* C23: a status query is read-only: a Job record changes only in a step of
\* the Job's own pipeline execution
StatusQueryIsReadOnly ==
  [][ \A id \in DOMAIN videoRequests :
        videoRequests'[id] # videoRequests[id]
          => task'[id].pc # task[id].pc \/ task'[id].i # task[id].i ]_vars


\* C24: when Jobs interleave at their awaits, a step of one Job's pipeline
\* changes that Job's record only; every other record stays as it was
JobStepsAreIsolated ==
  [][ \A id, other \in DOMAIN videoRequests :
        ( /\ id # other
          /\ task'[id].pc # task[id].pc \/ task'[id].i # task[id].i )
          => videoRequests'[other] = videoRequests[other] ]_vars

JobStepsAreIsolated_witness ==
  \E id, other \in DOMAIN videoRequests :
    /\ id < other
    /\ task[id].pc = "generateVideoClip"
    /\ task[id].i = 1
    /\ task[other].pc = "resolved"
    /\ videoRequests[id].status = "processing"
    /\ videoRequests[other].status = "completed"


\* C25: within one Job the steps are sequential: a single call is awaited at
\* a time, and the generation of segment i+1 is requested only when clip i
\* is stored and its frame extraction has returned, with that frame as the
\* reference
StepsAreSequential ==
  \A id \in DOMAIN task :
    LET t == task[id]
        r == videoRequests[id]
    IN /\ t.pc = "generateVideoClip"
            => /\ Len(r.clips) = t.i
               /\ t.clipData = Undefined
               /\ t.i = 0 => t.call.referenceImageUrl = Null
               /\ (t.i >= 1 /\ service # "stock")
                    => t.call.referenceImageUrl \in
                         extractReferenceFrame(service, r.clips[t.i].videoUrl, env)
       /\ t.pc = "extractReferenceFrame"
            => Len(r.clips) = t.i /\ t.clipData # Undefined
       /\ t.pc = "uploadToGoogleDrive" => Len(r.clips) = Len(t.segments)

StepsAreSequential_witness ==
  \E id \in DOMAIN task :
    /\ service = "gemini"
    /\ task[id].pc = "generateVideoClip"
    /\ task[id].i = 2
    /\ task[id].call.referenceImageUrl = FrameOf(videoRequests[id].clips[2].videoUrl)


\* C26: no Job stays in processing for ever because an external dependency
\* never responds: a Job that awaits a provider call or a frame extraction
\* eventually gets past these calls
ProviderAwaitsSettle ==
  \A id \in 1..MaxJobs :
    (id \in DOMAIN task
       /\ task[id].pc \in {"generateVideoClip", "extractReferenceFrame"})
      ~> (id \in DOMAIN task
            /\ task[id].pc \notin {"generateVideoClip", "extractReferenceFrame"})


\* a call of parseScriptIntoSegments has returned
Parsed == "call" \in DOMAIN response /\ response.call = "parseScriptIntoSegments"

\* the sentences of the non-blank paragraphs of a script, in order
SentencesOf(script) == concat(script)

\* C27: every segment has at most clipDuration * 2.5 words, unless it is one
\* sentence of the script that exceeds the bound by itself
SegmentsFitClip ==
  Parsed =>
    \A k \in 1..Len(response.segments) :
      LET segment == response.segments[k]
          sentences == SentencesOf(response.script)
      IN \/ 2 * Len(segment) <= 5 * response.clipDuration
         \/ \E j \in 1..Len(sentences) :
              /\ segment = sentences[j]
              /\ 2 * Len(sentences[j]) > 5 * response.clipDuration

SegmentsFitClip_witness ==
  /\ Parsed
  /\ response.clipDuration = 3
  /\ Len(response.segments) = 2
  /\ Len(response.segments[1]) = 5
  /\ Len(response.segments[2]) = 10

\* C28: the segments, put together in order, are the sentences of the
\* non-blank paragraphs of the script in their original order: nothing is
\* lost, repeated or moved
SegmentsKeepTheScript ==
  Parsed => concat(response.segments) = concat(SentencesOf(response.script))

SegmentsKeepTheScript_witness ==
  /\ Parsed
  /\ Len(response.script) = 2
  /\ response.script[1] = <<>>
  /\ Len(response.script[2]) = 3
  /\ Len(response.segments) = 2


\* the position of the first occurrence of a word among the tokens
FirstOccurrence(tokens, word) ==
  CHOOSE k \in 1..Len(tokens) :
    tokens[k] = word /\ \A j \in 1..(k - 1) : tokens[j] # word

\* a list of keywords is ranked for a text: at most maxKeywords distinct
\* tokens, longer than 3 characters, no stop words, the more frequent first
\* and, among equally frequent ones, the one that occurs first in the text
Ranked(keywords, text, maxKeywords) ==
  LET tokens == tokenize(text)
  IN /\ Len(keywords) <= maxKeywords
     /\ \A j, k \in 1..Len(keywords) : j # k => keywords[j] # keywords[k]
     /\ \A k \in 1..Len(keywords) :
          /\ wordLength[keywords[k]] > 3
          /\ keywords[k] \notin stopwords
     /\ \A j, k \in 1..Len(keywords) :
          j < k =>
            \/ Occurrences(tokens, keywords[j]) > Occurrences(tokens, keywords[k])
            \/ /\ Occurrences(tokens, keywords[j]) = Occurrences(tokens, keywords[k])
               /\ FirstOccurrence(tokens, keywords[j])
                    < FirstOccurrence(tokens, keywords[k])

\* C29: extractKeywords returns at most maxKeywords distinct tokens, each
\* longer than 3 characters and no stop word, by descending frequency, and
\* by first occurrence in the text among equally frequent tokens
KeywordsAreRanked ==
  \A r \in 1..Len(keywordRuns) :
    Ranked(keywordRuns[r].keywords, keywordRuns[r].text,
           keywordRuns[r].maxKeywords)

CacheHoldsAtMostThree ==
  generator # Null => Len(generator.clipCache.previousClips) <= 3


\* C32: the reference handed to the generation of a clip is the frame
\* extracted from the clip before it in the same Job, or none: the first
\* clip gets none, and the frame of a clip of another Job or of an older
\* clip is never handed over.  (Where part_001 simulates the provider, the
\* frame it simulates for the simulated clip counts as that clip's frame.)
ReferenceIsFrameOfPreviousClip ==
  \A id \in DOMAIN task :
    task[id].pc = "generateVideoClip" =>
      LET reference == task[id].call.referenceImageUrl
          i == task[id].i
          clips == videoRequests[id].clips
      IN /\ i = 0 => reference = Null
         /\ i >= 1 =>
              \/ reference = Null
              \/ reference = FrameOf(clips[i].videoUrl)
              \/ /\ reference = MockFrame
                 /\ service = "geminiMock"
                 /\ env.NODE_ENV = "development" \/ isMockUrl(clips[i].videoUrl)
         /\ \A other \in DOMAIN videoRequests :
              \A k \in 1..Len(videoRequests[other].clips) :
                (other # id \/ k # i)
                  => reference # FrameOf(videoRequests[other].clips[k].videoUrl)


\* C33: every Job in status failed carries a non-empty error message: the
\* text of the error that ended its run, after the word Error
FailedJobCarriesError ==
  \A id \in DOMAIN videoRequests :
    videoRequests[id].status = "failed" =>
      /\ Len(videoRequests[id].message) >= 2
      /\ videoRequests[id].message[1] = "Error:"

FailedJobCarriesError_witness ==
  \E id \in DOMAIN videoRequests :
    /\ service = "gemini"
    /\ videoRequests[id].status = "failed"
    /\ task[id].pc = "rejected"
    /\ videoRequests[id].message =
         <<"Error:", "Failed to generate video clip:", "Network Error">>


\* C34: while the frame of clip i is being extracted, clip i is already in
\* the clips of the Job, so a status query made then sees it
ClipStoredBeforeFrameExtraction ==
  \A id \in DOMAIN task :
    task[id].pc = "extractReferenceFrame" =>
      /\ Len(videoRequests[id].clips) = task[id].i + 1
      /\ videoRequests[id].clips[task[id].i + 1].videoUrl = task[id].clipData.videoUrl


\* the words of a piece of text: what split(/\s+/) yields, without the
\* empty strings it yields for white space at either end
Words(text) == Cardinality({ k \in 1..Len(text) : text[k] # "" })

\* the segments of each paragraph of a script, paragraph by paragraph
SegmentsOfParagraph(paragraph, clipDuration) ==
  segmentParagraph(<<>>, paragraph, clipDuration)

\* the sentence of a paragraph that a segment begins with
FirstSentence(segment, paragraph) ==
  CHOOSE sentence \in { paragraph[j] : j \in 1..Len(paragraph) } :
    /\ sentence # <<>>
    /\ Len(sentence) <= Len(segment)
    /\ SubSeq(segment, 1, Len(sentence)) = sentence

\* C35: segmentation is greedy: of two consecutive segments of one
\* paragraph, the first could not have taken the first sentence of the
\* second: their words together exceed clipDuration * 2.5
SegmentationIsGreedy ==
  Parsed =>
    /\ response.segments =
         concat([p \in 1..Len(response.script) |->
                   SegmentsOfParagraph(response.script[p], response.clipDuration)])
    /\ \A p \in 1..Len(response.script) :
         LET paragraph == response.script[p]
             segments == SegmentsOfParagraph(paragraph, response.clipDuration)
         IN \A k \in 1..(Len(segments) - 1) :
              2 * (Words(segments[k])
                     + Words(FirstSentence(segments[k + 1], paragraph)))
                > 5 * response.clipDuration


\* C36: generateMockVideoUrl goes through the keywords in their order and
\* returns the asset of the first one that is in a category's list: a
\* keyword decides only when none before it is in any list
FirstCategoryKeywordDecides ==
  \A r \in 1..Len(fallback) :
    fallback[r].path = "kling"
      => LET keywords == fallback[r].text
         IN \A k \in 1..Len(keywords) :
              ( /\ hasCategory(keywords[k])
                /\ \A j \in 1..(k - 1) : ~hasCategory(keywords[j]) )
                => \E c \in 1..Len(categoryKeywords) :
                     /\ toLowerCase[keywords[k]] \in categoryKeywords[c][2]
                     /\ fallback[r].asset.name =
                          <<stockVideos[categoryKeywords[c][1]]>>

FirstCategoryKeywordDecides_witness ==
  \E r \in 1..Len(fallback) :
    /\ fallback[r].path = "kling"
    /\ fallback[r].text = <<"robot", "mountain">>
    /\ fallback[r].asset.name = <<stockVideos.technology>>


\* generateVideoFromScript of the compatibility layer has returned a job
\* whose id the layer made itself (the provider gave no task id)
Submitted(reply, call) ==
  /\ "call" \in DOMAIN reply
  /\ reply.call = "generateVideoFromScript"
  /\ call # Null
  /\ "taskId" \notin DOMAIN call.result

\* C37: job ids are unique: two distinct submissions, made at the same clock
\* reading or not, never receive the same id
JobIdsAreUnique ==
  [][ ( /\ Submitted(response, kling)
        /\ Submitted(response', kling')
        /\ kling'.prompt # kling.prompt )
        => response'.value.id # response.value.id ]_vars


\* C38: every request started by startGeneration eventually leaves
\* processing: it becomes completed, or failed with an error set
StartedRequestsSettle ==
  \A requestId \in 1..MaxRequests :
    (requestId \in DOMAIN requests /\ requests[requestId].status = "processing")
      ~> ( /\ requestId \in DOMAIN requests
           /\ \/ requests[requestId].status = "completed"
              \/ /\ requests[requestId].status = "failed"
                 /\ "error" \in DOMAIN requests[requestId] )


\* C39: when the provider status check fails, getVideoRequestStatus of the
\* compatibility layer answers from the job registry, and with the status
\* unknown when that lookup fails too: its caller gets the provider's
\* status, a record of the registry or the unknown placeholder, never the
\* failure of the provider check
ProviderFailureFallsBack ==
  ( /\ "call" \in DOMAIN response
    /\ response.call = "getVideoRequestStatus" )
    => /\ ~response.threw
       /\ response.value.status \in
            {"pending", "processing", "completed", "failed", "unknown"}
       /\ "error" \notin DOMAIN response.value
       /\ response.value.status = "unknown"
            => /\ response.value.id = response.requestId
               /\ response.requestId \notin DOMAIN videoRequests

=============================================================================
